---- MODULE Spec2Model ----
(***************************************************************************)
(* Acquisition pipeline of biciregistro (src/app/api/bicycles/route.ts):   *)
(* the GET handler, the orchestrator fetchBicyclesFromBiciregistro and its *)
(* three strategies fetchFromRestAPI, fetchBicyclesWithPlaywright and      *)
(* fetchBicyclesViaScraping with the page fetcher fetchBicyclesPage.       *)
(*                                                                         *)
(* The handler is asynchronous: one action is the code that runs between   *)
(* two awaits.  An await on the upstream (fetch, a browser operation)      *)
(* resolves with an outcome drawn from a small set.  A Bicycle is          *)
(* represented by its provenance: which strategy produced it, and for the  *)
(* REST API which endpoint, method and page (the records of one API page   *)
(* stand as one element).                                                  *)
(***************************************************************************)
EXTENDS Integers, Sequences, FiniteSets, TLC

\* ------------------------------------------------------------------ bounds
\* largest number of records one upstream page (or rendered document) holds
MaxPageRecords == 1
\* upstream failures (5xx, fetch rejection) injected into the REST strategy
\* after it has collected its first record
MaxMidRunFaults == 1
\* largest number of cards in the rendered document of the record-level model
MaxCards == 2
\* largest number of filters a request of the record-level model combines
MaxSupplied == 2
\* the elements one selector matches in a card
MaxMatches == 2
\* the pagination controls in one document of the pagination model
MaxControls == 1

\* ------------------------------------------------------- program constants
MAX_API_PAGES == 10
MAX_SCRAPING_PAGES == 100
maxConsecutiveEmpty == 2
maxRetries == 3

\* endpoints (route.ts:78-82) and methods (route.ts:89-92), by list position
endpoints == <<"/v1/bicicletas/pagedLocalizadas", "/v1/bicicletas/getLocalizadas", "/v1/bicicletas/localizadas">>
methods == <<"POST", "GET">>

\* --------------------------------------------------------------- variables
VARIABLES
  pc,                     \* the await the handler is suspended at
  calls,                  \* strategies invoked so far, in order
  apiResult,              \* outcome of fetchFromRestAPI
  playwrightResult,       \* outcome of fetchBicyclesWithPlaywright
  scrapedResult,          \* outcome of fetchBicyclesViaScraping
  response,               \* the handler's HTTP response
  endpoint,               \* fetchFromRestAPI: index into endpoints
  method,                 \* fetchFromRestAPI: index into methods
  apiPage,                \* fetchFromRestAPI: page
  apiAllBicycles,         \* fetchFromRestAPI: allBicycles
  midRunFaults,           \* failures injected while apiAllBicycles is non-empty
  browser,                \* fetchBicyclesWithPlaywright: the variable browser, "null" or "open"
  session,                \* the browser process: "none", "open", "closed"
  closeCalls,             \* number of browser.close() calls of the running Playwright call
  markerSeen,             \* did waitForSelector find a content marker
  page,                   \* fetchBicyclesViaScraping: page
  hasMorePages,           \* fetchBicyclesViaScraping: hasMorePages
  consecutiveEmptyPages,  \* fetchBicyclesViaScraping: consecutiveEmptyPages
  scrapeAllBicycles,      \* fetchBicyclesViaScraping: allBicycles
  result,                 \* fetchBicyclesViaScraping: result, what fetchBicyclesPage returned
  attempt,                \* fetchBicyclesPage: attempt
  waitTime,               \* fetchBicyclesPage: the backoff being slept, else 0
  lastReq,                \* the last request the running fetch loop has seen settle
  lastOutcome,            \* how it settled (fetchBicyclesPage: lastError)
  onlyOneUnknown,         \* every page result so far was exactly 1 bicycle with hasNextPage null
  filters,                \* GET: filters, the SearchFilters of the request
  pwBicycles,             \* fetchBicyclesWithPlaywright: bicycles, the records before the local filter
  rawItems,               \* parseAPIResponse: items, the raw items of the response body
  aborted,                \* the caller has aborted the request to GET
  element,                \* extractText: $element, what each selector finds in it
  selectorList,           \* extractText: selectors
  extractResult,          \* outcome of extractText
  relayPc,                \* the await the image relay is suspended at
  imageUrl,               \* image relay: imageUrl, the url parameter ("null": absent)
  outbound,               \* the URLs the image relay has fetched
  relayResponse,          \* the image relay's HTTP response
  body,                   \* parseAPIResponse: data, the parsed JSON body
  parseResult,            \* outcome of parseAPIResponse
  html,                   \* parseBicycleData: html, the document as the selectors see it
  pageParse               \* outcome of parseBicycleData

orchVars == <<calls, apiResult, playwrightResult, scrapedResult, response>>
apiVars == <<endpoint, method, apiPage, apiAllBicycles, midRunFaults>>
pwVars == <<browser, session, closeCalls, markerSeen>>
scrapeVars == <<page, hasMorePages, consecutiveEmptyPages, scrapeAllBicycles, result, attempt, waitTime, onlyOneUnknown>>
httpVars == <<lastReq, lastOutcome>>
extractVars == <<element, selectorList, extractResult>>
relayVars == <<relayPc, imageUrl, outbound, relayResponse>>
parseVars == <<body, parseResult>>
pageParseVars == <<html, pageParse>>
sideVars == <<aborted, extractVars, relayVars, parseVars, pageParseVars>>
dataVars == <<filters, pwBicycles, rawItems, sideVars>>
vars == <<pc, orchVars, apiVars, pwVars, scrapeVars, httpVars, dataVars>>

\* ------------------------------------------------------------------ values
NotRun == [kind |-> "notrun"]
Throw == [kind |-> "throw"]
Return(list) == [kind |-> "return", value |-> list]

NoReq == [strategy |-> "none"]
NoOutcome == [kind |-> "none"]
Ok == [kind |-> "status", code |-> 200]
Status(c) == [kind |-> "status", code |-> c]
\* fetch() rejected: AbortSignal.timeout fired or the connection failed
Rejected == [kind |-> "error", name |-> "TimeoutError"]

ShapeStatus == {404, 405}
AuthStatus == {401, 403}
ServerStatus == {500}
FailStatus == ShapeStatus \cup AuthStatus \cup ServerStatus
Failures == { Status(c) : c \in FailStatus } \cup {Rejected}

Rep(n, r) == [i \in 1..n |-> r]
ApiBicycle(e, m, p) == [src |-> "api", endpoint |-> e, method |-> m, page |-> p]
DomBicycle == [src |-> "dom"]
\* a record scraped from HTML: the control flow looks at how many there are,
\* one token stands for each
HtmlBicycle == "html"

\* what parseBicycleData finds in one HTML page, route.ts:619-763: the number
\* of bicycles and hasNextPage ("true", "false" or "null")
PageResult(n, next) == [bicycles |-> n, hasNextPage |-> next]
NoResult == [bicycles |-> 0, hasNextPage |-> "none"]

Min(a, b) == IF a < b THEN a ELSE b
RECURSIVE Pow2(_)
Pow2(n) == IF n = 0 THEN 1 ELSE 2 * Pow2(n - 1)

\* ------------------------------------------------------------------- Init
\* a request has arrived and no strategy has run
InitHandler ==
  /\ pc = "idle"
  /\ calls = <<>>
  /\ apiResult = NotRun
  /\ playwrightResult = NotRun
  /\ scrapedResult = NotRun
  /\ response = [status |-> 0]
  /\ endpoint = 1
  /\ method = 1
  /\ apiPage = 0
  /\ apiAllBicycles = <<>>
  /\ midRunFaults = 0
  /\ browser = "null"
  /\ session = "none"
  /\ closeCalls = 0
  /\ markerSeen = FALSE
  /\ page = 1
  /\ hasMorePages = TRUE
  /\ consecutiveEmptyPages = 0
  /\ scrapeAllBicycles = <<>>
  /\ result = NoResult
  /\ attempt = 1
  /\ waitTime = 0
  /\ lastReq = NoReq
  /\ lastOutcome = NoOutcome
  /\ onlyOneUnknown = TRUE
  /\ pwBicycles = <<>>
  /\ rawItems = <<>>

\* the caller is connected
NotAborted == aborted = FALSE

\* no call of extractText is under way
NoExtraction ==
  /\ element = <<>>
  /\ selectorList = <<>>
  /\ extractResult = NotRun

\* no call of parseAPIResponse on a body of its own is under way
NoParse ==
  /\ body = [kind |-> "none"]
  /\ parseResult = NotRun

\* no call of parseBicycleData on a document of its own is under way
NoDocument ==
  /\ html = [controls |-> {}, records |-> 0]
  /\ pageParse = NotRun

\* no request to the image relay is under way
RelayIdle ==
  /\ relayPc = "none"
  /\ imageUrl = <<"null">>
  /\ outbound = <<>>
  /\ relayResponse = [status |-> 0]

\* the control-flow specification leaves the content of the filters open:
\* its actions draw what the filters let through
Init ==
  /\ InitHandler
  /\ filters = "any"
  /\ NotAborted
  /\ NoExtraction
  /\ NoParse
  /\ NoDocument
  /\ RelayIdle

\* ------------------------------------------------------------ GET handler
\* GET, route.ts:1091-1103: the orchestrator's outcome becomes the response
GETRespond(outcome) ==
  /\ pc' = "done"
  /\ response' = IF outcome.kind = "return"
                   THEN [status |-> 200, success |-> TRUE,
                         count |-> Len(outcome.value), data |-> outcome.value]
                   ELSE [status |-> 500, success |-> FALSE]

\* route.ts:1073-1090 and 15-23: the handler builds the filters, the
\* orchestrator calls Strategy 1, which sends its first request
GET ==
  /\ pc = "idle"
  /\ pc' = "api"
  /\ calls' = <<"api">>
  /\ UNCHANGED <<apiResult, playwrightResult, scrapedResult, response>>
  /\ UNCHANGED <<apiVars, pwVars, scrapeVars, httpVars>>
  /\ UNCHANGED dataVars

\* ----------------------------------------------------------- orchestrator
\* OrchAfterRestAPI with the test of route.ts:24 lost: Strategy 2 runs even
\* when Strategy 1 returned records
OrchAfterRestAPI_NoEarlyReturn ==
  /\ pc = "orch_api"
  /\ pc' = "pw_launch"
  /\ calls' = Append(calls, "playwright")
  /\ response' = response
  /\ endpoint' = 1 /\ method' = 1 /\ apiPage' = 0 /\ midRunFaults' = 0
  /\ lastReq' = NoReq /\ lastOutcome' = NoOutcome
  /\ UNCHANGED <<apiResult, playwrightResult, scrapedResult, apiAllBicycles>>
  /\ UNCHANGED <<pwVars, scrapeVars>>
  /\ UNCHANGED dataVars

\* fetchBicyclesFromBiciregistro resumes after `await fetchFromRestAPI`,
\* route.ts:22-36: return a non-empty list, else launch the browser; the
\* locals of the finished call are dropped
OrchAfterRestAPI ==
  /\ pc = "orch_api"
  /\ IF apiResult.kind = "return" /\ Len(apiResult.value) > 0
       THEN /\ GETRespond(Return(apiResult.value))
            /\ calls' = calls
       ELSE /\ pc' = "pw_launch"
            /\ calls' = Append(calls, "playwright")
            /\ response' = response
  /\ endpoint' = 1 /\ method' = 1 /\ apiPage' = 0 /\ midRunFaults' = 0
  /\ lastReq' = NoReq /\ lastOutcome' = NoOutcome
  /\ UNCHANGED <<apiResult, playwrightResult, scrapedResult, apiAllBicycles>>
  /\ UNCHANGED <<pwVars, scrapeVars>>
  /\ UNCHANGED dataVars

\* OrchAfterPlaywright without the catch of route.ts:42-44: a throw of
\* Strategy 2 ends the orchestrator
OrchAfterPlaywright_NoCatch ==
  /\ pc = "orch_playwright"
  /\ IF playwrightResult.kind = "throw"
       THEN /\ GETRespond(Throw)
            /\ calls' = calls
       ELSE IF Len(playwrightResult.value) > 0
       THEN /\ GETRespond(Return(playwrightResult.value))
            /\ calls' = calls
       ELSE /\ pc' = "scrape"
            /\ calls' = Append(calls, "scraping")
            /\ response' = response
  /\ browser' = "null" /\ closeCalls' = 0 /\ markerSeen' = FALSE
  /\ pwBicycles' = <<>>
  /\ UNCHANGED <<apiResult, playwrightResult, scrapedResult, session>>
  /\ UNCHANGED <<apiVars, scrapeVars, httpVars, filters, rawItems, sideVars>>

\* ... after `await fetchBicyclesWithPlaywright`, route.ts:34-48: return a
\* non-empty list, else call Strategy 3, which sends the request for page 1;
\* the locals of the finished call and its count of close() calls are dropped
OrchAfterPlaywright ==
  /\ pc = "orch_playwright"
  /\ IF playwrightResult.kind = "return" /\ Len(playwrightResult.value) > 0
       THEN /\ GETRespond(Return(playwrightResult.value))
            /\ calls' = calls
       ELSE /\ pc' = "scrape"
            /\ calls' = Append(calls, "scraping")
            /\ response' = response
  /\ browser' = "null" /\ closeCalls' = 0 /\ markerSeen' = FALSE
  /\ pwBicycles' = <<>>
  /\ UNCHANGED <<apiResult, playwrightResult, scrapedResult, session>>
  /\ UNCHANGED <<apiVars, scrapeVars, httpVars, filters, rawItems, sideVars>>

\* OrchAfterScraping falling back to mock bicycles when every strategy is
\* exhausted
OrchAfterScraping_Mock ==
  /\ pc = "orch_scraping"
  /\ IF scrapedResult.kind = "return" /\ Len(scrapedResult.value) > 0
       THEN GETRespond(Return(scrapedResult.value))
       ELSE GETRespond(Return(Rep(12, [src |-> "mock"])))
  /\ UNCHANGED <<calls, apiResult, playwrightResult, scrapedResult>>
  /\ UNCHANGED <<apiVars, pwVars, scrapeVars, httpVars>>
  /\ UNCHANGED dataVars

\* ... after `await fetchBicyclesViaScraping`, route.ts:47-59: return the list
\* if it is non-empty, else the empty list
OrchAfterScraping ==
  /\ pc = "orch_scraping"
  /\ IF scrapedResult.kind = "return" /\ Len(scrapedResult.value) > 0
       THEN GETRespond(Return(scrapedResult.value))
       ELSE GETRespond(Return(<<>>))
  /\ UNCHANGED <<calls, apiResult, playwrightResult, scrapedResult>>
  /\ UNCHANGED <<apiVars, pwVars, scrapeVars, httpVars>>
  /\ UNCHANGED dataVars

\* ------------------------------------------------- Strategy 1: REST API
\* a parsed JSON body: whether parseAPIResponse finds items in it, and the
\* pagination metadata checkHasMorePages reads ("undefined": key absent;
\* totalPages = 0: absent or zero, which JavaScript treats alike)
Data(items, last, hasNext, hasMore, totalPages, number) ==
  [items |-> items, last |-> last, hasNext |-> hasNext, hasMore |-> hasMore,
   totalPages |-> totalPages, number |-> number]

ApiData ==
  { Data(items, m[1], m[2], m[3], m[4], m[5]) :
      items \in BOOLEAN,
      m \in { <<"undefined", "undefined", "undefined", 0, 0>>,
              <<"false", "undefined", "undefined", 0, 0>>,
              <<"true", "undefined", "undefined", 0, 0>>,
              <<"undefined", "true", "undefined", 0, 0>>,
              <<"undefined", "undefined", "true", 0, 0>>,
              <<"undefined", "undefined", "false", 0, 0>>,
              <<"undefined", "undefined", "undefined", 3, 0>>,
              <<"undefined", "undefined", "undefined", 3, 2>> } }

\* parseAPIResponse(data), route.ts:413-473, as far as the loops look at it:
\* the records of one page share their provenance and stand as one element
parseAPIResponse(data, e, m, p) ==
  IF data.items THEN <<ApiBicycle(e, m, p)>> ELSE <<>>

\* checkHasMorePages, route.ts:476-489
checkHasMorePages(data) ==
  IF data.last = "false" \/ data.hasNext = "true" THEN TRUE
  ELSE IF data.totalPages # 0 /\ data.number < data.totalPages - 1 THEN TRUE
  ELSE IF data.hasMore = "true" THEN TRUE
  ELSE FALSE

\* `response.ok` and `const data = await response.json()`, route.ts:133-134
OkData(data) == [kind |-> "status", code |-> 200, data |-> data]

\* the request of one iteration of the page loop, route.ts:98-131
ApiRequest == [strategy |-> "api", endpoint |-> endpoint, method |-> method, page |-> apiPage]

\* return allBicycles, route.ts:163 and 176
ApiReturn(all) ==
  /\ UNCHANGED <<endpoint, method, apiPage>>
  /\ apiResult' = Return(all)
  /\ pc' = "orch_api"

\* the loops go on and send the request (e, m, p)
ApiGoto(e, m, p) ==
  /\ endpoint' = e
  /\ method' = m
  /\ apiPage' = p
  /\ pc' = "api"
  /\ apiResult' = apiResult

\* the next iteration of `for (const methodConfig of methods)`, and past its
\* end of `for (const endpoint of endpoints)`, route.ts:84-94 and 176
ApiNextMethod(all) ==
  IF method < Len(methods) THEN ApiGoto(endpoint, method + 1, 0)
  ELSE IF endpoint < Len(endpoints) THEN ApiGoto(endpoint + 1, 1, 0)
  ELSE ApiReturn(all)

\* the page loop was left, route.ts:162-164
ApiAfterPageLoop(all) ==
  IF Len(all) > 0 THEN ApiReturn(all) ELSE ApiNextMethod(all)

\* ApiNextPage stepping by two pages
ApiNextPage_SkipsPage(all) ==
  IF apiPage + 2 < MAX_API_PAGES THEN ApiGoto(endpoint, method, apiPage + 2)
  ELSE ApiAfterPageLoop(all)

\* ApiNextPage with <= for <: an eleventh page is requested
ApiNextPage_OffByOne(all) ==
  IF apiPage + 1 <= MAX_API_PAGES THEN ApiGoto(endpoint, method, apiPage + 1)
  ELSE ApiAfterPageLoop(all)

\* page++ and the loop test page < MAX_API_PAGES, route.ts:97
ApiNextPage(all) ==
  IF apiPage + 1 < MAX_API_PAGES THEN ApiGoto(endpoint, method, apiPage + 1)
  ELSE ApiAfterPageLoop(all)

\* response.ok, route.ts:133-150
ApiFetchOk ==
  /\ pc = "api"
  /\ \E data \in ApiData :
       LET bicycles == parseAPIResponse(data, endpoint, method, apiPage)
           all == apiAllBicycles \o bicycles
       IN /\ apiAllBicycles' = all
          /\ IF Len(bicycles) > 0 /\ checkHasMorePages(data)
               THEN ApiNextPage(all)
               ELSE ApiAfterPageLoop(all)
          /\ lastOutcome' = OkData(data)
  /\ lastReq' = ApiRequest
  /\ midRunFaults' = midRunFaults
  /\ UNCHANGED <<calls, playwrightResult, scrapedResult, response>>
  /\ UNCHANGED <<pwVars, scrapeVars>>
  /\ UNCHANGED dataVars

\* a non-ok response: 404/405 and 401/403 leave the page loop, route.ts:151-159;
\* any other status falls out of the if-chain and the loop goes on with page++
ApiFetchStatus ==
  /\ pc = "api"
  /\ \E c \in FailStatus :
       /\ c \in ServerStatus => (Len(apiAllBicycles) = 0 \/ midRunFaults < MaxMidRunFaults)
       /\ lastOutcome' = Status(c)
       /\ midRunFaults' = IF c \in ServerStatus /\ Len(apiAllBicycles) > 0
                            THEN midRunFaults + 1 ELSE midRunFaults
       /\ IF c = 404 \/ c = 405 THEN ApiAfterPageLoop(apiAllBicycles)
          ELSE IF c = 401 \/ c = 403 THEN ApiAfterPageLoop(apiAllBicycles)
          ELSE ApiNextPage(apiAllBicycles)
  /\ lastReq' = ApiRequest
  /\ apiAllBicycles' = apiAllBicycles
  /\ UNCHANGED <<calls, playwrightResult, scrapedResult, response>>
  /\ UNCHANGED <<pwVars, scrapeVars>>
  /\ UNCHANGED dataVars

\* fetch rejects (timeout, connection failure) -- a rejected response.json()
\* takes the same path: catch (methodError), continue, route.ts:165-168; the
\* test of route.ts:162 is skipped, allBicycles keeps what it holds
ApiFetchThrow ==
  /\ pc = "api"
  /\ Len(apiAllBicycles) = 0 \/ midRunFaults < MaxMidRunFaults
  /\ ApiNextMethod(apiAllBicycles)
  /\ lastReq' = ApiRequest
  /\ lastOutcome' = Rejected
  /\ midRunFaults' = IF Len(apiAllBicycles) > 0 THEN midRunFaults + 1 ELSE midRunFaults
  /\ apiAllBicycles' = apiAllBicycles
  /\ UNCHANGED <<calls, playwrightResult, scrapedResult, response>>
  /\ UNCHANGED <<pwVars, scrapeVars>>
  /\ UNCHANGED dataVars

\* ----------------------------------------- Strategy 2: rendered DOM (Playwright)
\* the awaited browser operations after launch, route.ts:189-219, in order
PwSteps == <<"pw_newContext", "pw_newPage", "pw_goto", "pw_wait", "pw_content", "pw_close">>
PwNext(s) == PwSteps[(CHOOSE i \in 1..Len(PwSteps) : PwSteps[i] = s) + 1]

\* PwCatch rethrowing without `if (browser) await browser.close()`
PwCatch_NoClose ==
  /\ UNCHANGED <<closeCalls, session>>
  /\ browser' = browser
  /\ playwrightResult' = Throw
  /\ pc' = "orch_playwright"

\* catch (error), route.ts:403-409: close the browser if the variable still
\* holds it, then rethrow to the orchestrator
PwCatch ==
  /\ IF browser # "null"
       THEN /\ closeCalls' = closeCalls + 1
            /\ session' = "closed"
       ELSE UNCHANGED <<closeCalls, session>>
  /\ browser' = browser
  /\ playwrightResult' = Throw
  /\ pc' = "orch_playwright"

\* chromium.launch resolves, route.ts:184-187
PwLaunchOk ==
  /\ pc = "pw_launch"
  /\ browser' = "open"
  /\ session' = "open"
  /\ pc' = "pw_newContext"
  /\ UNCHANGED <<closeCalls, markerSeen, orchVars, apiVars, scrapeVars, httpVars>>
  /\ UNCHANGED dataVars

\* chromium.launch rejects: browser is still null in the catch
PwLaunchFail ==
  /\ pc = "pw_launch"
  /\ PwCatch
  /\ UNCHANGED <<calls, apiResult, scrapedResult, response>>
  /\ UNCHANGED <<markerSeen, apiVars, scrapeVars, httpVars>>
  /\ UNCHANGED dataVars

\* newContext, newPage, goto or content resolves, route.ts:189-217
PwStepOk ==
  /\ pc \in {"pw_newContext", "pw_newPage", "pw_goto", "pw_content"}
  /\ pc' = PwNext(pc)
  /\ UNCHANGED <<pwVars, orchVars, apiVars, scrapeVars, httpVars>>
  /\ UNCHANGED dataVars

\* newContext, newPage, goto or content rejects
PwStepFail ==
  /\ pc \in {"pw_newContext", "pw_newPage", "pw_goto", "pw_content"}
  /\ PwCatch
  /\ UNCHANGED <<calls, apiResult, scrapedResult, response>>
  /\ UNCHANGED <<markerSeen, apiVars, scrapeVars, httpVars>>
  /\ UNCHANGED dataVars

\* PwWait without the inner try/catch: the timeout of waitForSelector reaches
\* the outer catch
PwWait_TimeoutThrows ==
  /\ pc = "pw_wait"
  /\ \E found \in BOOLEAN :
       /\ markerSeen' = found
       /\ IF found
            THEN /\ pc' = "pw_content"
                 /\ UNCHANGED <<browser, session, closeCalls, playwrightResult>>
            ELSE PwCatch
  /\ UNCHANGED <<calls, apiResult, scrapedResult, response>>
  /\ UNCHANGED <<apiVars, scrapeVars, httpVars>>
  /\ UNCHANGED dataVars

\* waitForSelector, route.ts:208-214: a timeout is caught and ignored
PwWait ==
  /\ pc = "pw_wait"
  /\ \E found \in BOOLEAN : markerSeen' = found
  /\ pc' = "pw_content"
  /\ UNCHANGED <<browser, session, closeCalls, orchVars, apiVars, scrapeVars, httpVars>>
  /\ UNCHANGED dataVars

\* await browser.close(); browser = null, route.ts:219-220
PwCloseOk ==
  /\ pc = "pw_close"
  /\ closeCalls' = closeCalls + 1
  /\ session' = "closed"
  /\ browser' = "null"
  /\ pc' = "pw_parse"
  /\ UNCHANGED <<markerSeen, orchVars, apiVars, scrapeVars, httpVars>>
  /\ UNCHANGED dataVars

\* browser.close() rejects: browser still holds the handle in the catch,
\* which calls close() again
PwCloseFail ==
  /\ pc = "pw_close"
  /\ closeCalls' = closeCalls + 2
  /\ session' = "closed"
  /\ browser' = browser
  /\ playwrightResult' = Throw
  /\ pc' = "orch_playwright"
  /\ UNCHANGED <<calls, apiResult, scrapedResult, response>>
  /\ UNCHANGED <<markerSeen, apiVars, scrapeVars, httpVars>>
  /\ UNCHANGED dataVars

\* cheerio parsing, extraction and the local filter, route.ts:222-401:
\* cards matched, of which kept have brand, model or description, of which
\* filtered pass the filters
PwParse ==
  /\ pc = "pw_parse"
  /\ \E cards \in 0..MaxPageRecords :
       \E kept \in 0..cards :
         \E filtered \in 0..kept :
           playwrightResult' = Return(Rep(filtered, DomBicycle))
  /\ pc' = "orch_playwright"
  /\ UNCHANGED <<calls, apiResult, scrapedResult, response>>
  /\ UNCHANGED <<pwVars, apiVars, scrapeVars, httpVars>>
  /\ UNCHANGED dataVars

\* cheerio.load or the extraction throws after browser was set to null
PwParseFail ==
  /\ pc = "pw_parse"
  /\ PwCatch
  /\ UNCHANGED <<calls, apiResult, scrapedResult, response>>
  /\ UNCHANGED <<markerSeen, apiVars, scrapeVars, httpVars>>
  /\ UNCHANGED dataVars

\* ------------------------------------------- Strategy 3: HTML scraping
\* DetectPagination looking at the disabled-next marker first
DetectPagination_DisabledFirst(nextLink, disabledNext) ==
  IF disabledNext THEN "false" ELSE IF nextLink THEN "true" ELSE "null"

\* "Detect pagination", route.ts:626-663: a match of one of the next-link
\* selectors gives true; without one, a match of one of the disabled-next
\* selectors gives false; with neither, hasNextPage stays null
DetectPagination(nextLink, disabledNext) ==
  IF nextLink THEN "true" ELSE IF disabledNext THEN "false" ELSE "null"

PageResults ==
  { PageResult(n, DetectPagination(nextLink, disabledNext)) :
      n \in 0..MaxPageRecords, nextLink \in BOOLEAN, disabledNext \in BOOLEAN }

\* the request of one attempt, route.ts:541-581: the URL depends on the
\* filters and the page only
PageRequest == [strategy |-> "html", page |-> page]

\* the backoff of a failed attempt, route.ts:608
Backoff(a) == Min(1000 * Pow2(a - 1), 5000)

\* RetryAllowed off by one: a fourth attempt
RetryAllowed_OffByOne(a) == a <= maxRetries

\* `if (attempt < maxRetries)`, route.ts:606, which with the loop test
\* `attempt <= maxRetries`, route.ts:538, decides whether another attempt follows
RetryAllowed(a) == a < maxRetries

\* CountAfter without the reset of route.ts:514
CountAfter_NoReset(r, count) == IF r.bicycles = 0 THEN count + 1 ELSE count

\* consecutiveEmptyPages after a page, route.ts:505-506 and 514
CountAfter(r, count) == IF r.bicycles = 0 THEN count + 1 ELSE 0

\* StopOnEmpty with > for >=
StopOnEmpty_Strict(count) == count > maxConsecutiveEmpty

\* StopOnEmpty stopping at the first empty page
StopOnEmpty_AtFirst(count) == count >= 1

\* `if (consecutiveEmptyPages >= maxConsecutiveEmpty)`, route.ts:509
StopOnEmpty(count) == count >= maxConsecutiveEmpty

\* StopOnSignal with a falsy test (!result.hasNextPage): null stops too
StopOnSignal_Falsy(r) == r.hasNextPage # "true"

\* `if (result.hasNextPage === false)`, route.ts:518
StopOnSignal(r) == r.hasNextPage = "false"

\* WithinCeiling off by one: page 101 is fetched
WithinCeiling_OffByOne(p) == p <= MAX_SCRAPING_PAGES + 1

\* the loop test `page <= MAX_SCRAPING_PAGES`, route.ts:501
WithinCeiling(p) == p <= MAX_SCRAPING_PAGES

\* PageFetchOk that treats a parsed page without records as a failed attempt
PageFetchOk_RetriesEmpty ==
  /\ pc = "scrape"
  /\ \E r \in PageResults :
       IF r.bicycles = 0 /\ RetryAllowed(attempt)
         THEN pc' = "backoff" /\ waitTime' = Backoff(attempt) /\ result' = result
         ELSE pc' = "page_done" /\ waitTime' = waitTime /\ result' = r
  /\ lastReq' = PageRequest
  /\ lastOutcome' = Ok
  /\ UNCHANGED <<page, hasMorePages, consecutiveEmptyPages, scrapeAllBicycles, attempt, onlyOneUnknown>>
  /\ UNCHANGED <<orchVars, apiVars, pwVars>>
  /\ UNCHANGED dataVars

\* an attempt succeeds: response.ok, parseBicycleData, return result,
\* route.ts:583-594
PageFetchOk ==
  /\ pc = "scrape"
  /\ \E r \in PageResults : result' = r
  /\ lastReq' = PageRequest
  /\ lastOutcome' = Ok
  /\ pc' = "page_done"
  /\ UNCHANGED <<page, hasMorePages, consecutiveEmptyPages, scrapeAllBicycles, attempt, waitTime, onlyOneUnknown>>
  /\ UNCHANGED <<orchVars, apiVars, pwVars>>
  /\ UNCHANGED dataVars

\* how an attempt of fetchBicyclesPage fails: every non-ok status is thrown
\* alike (route.ts:583-585), so one client-error status and one server-error
\* status stand for them, next to a rejected fetch
PageFailures == { Status(401), Status(500), Rejected }

\* an attempt fails: a non-ok status is thrown as an Error, or fetch rejects;
\* catch, route.ts:595-612, then either the backoff or, after the last
\* attempt, return { bicycles: [], hasNextPage: null }, route.ts:615-616
PageFetchFail ==
  /\ pc = "scrape"
  /\ \E o \in PageFailures : lastOutcome' = o
  /\ lastReq' = PageRequest
  /\ IF RetryAllowed(attempt)
       THEN /\ pc' = "backoff"
            /\ waitTime' = Backoff(attempt)
            /\ result' = result
       ELSE /\ pc' = "page_done"
            /\ waitTime' = waitTime
            /\ result' = PageResult(0, "null")
  /\ UNCHANGED <<page, hasMorePages, consecutiveEmptyPages, scrapeAllBicycles, attempt, onlyOneUnknown>>
  /\ UNCHANGED <<orchVars, apiVars, pwVars>>
  /\ UNCHANGED dataVars

\* PageRetry without the attempt++ of the for loop: the retry never runs out
PageRetry_SameAttempt ==
  /\ pc = "backoff"
  /\ pc' = "scrape"
  /\ attempt' = attempt
  /\ waitTime' = 0
  /\ UNCHANGED <<page, hasMorePages, consecutiveEmptyPages, scrapeAllBicycles, result, onlyOneUnknown>>
  /\ UNCHANGED <<orchVars, apiVars, pwVars, httpVars>>
  /\ UNCHANGED dataVars

\* the backoff timer fires and the for loop sends the next attempt,
\* route.ts:610 and 538
PageRetry ==
  /\ pc = "backoff"
  /\ pc' = "scrape"
  /\ attempt' = attempt + 1
  /\ waitTime' = 0
  /\ UNCHANGED <<page, hasMorePages, consecutiveEmptyPages, scrapeAllBicycles, result, onlyOneUnknown>>
  /\ UNCHANGED <<orchVars, apiVars, pwVars, httpVars>>
  /\ UNCHANGED dataVars

\* fetchBicyclesViaScraping resumes with result: the rest of the loop body,
\* page++ and the loop test, then the next fetchBicyclesPage call or
\* return allBicycles, route.ts:501-527
ScrapePage ==
  /\ pc = "page_done"
  /\ LET empty == result.bicycles = 0
         count == CountAfter(result, consecutiveEmptyPages)
         more == IF empty
                   THEN (IF StopOnEmpty(count) THEN FALSE ELSE hasMorePages)
                   ELSE (IF StopOnSignal(result) THEN FALSE ELSE hasMorePages)
         all == IF empty THEN scrapeAllBicycles
                ELSE scrapeAllBicycles \o Rep(result.bicycles, HtmlBicycle)
     IN /\ consecutiveEmptyPages' = count
        /\ hasMorePages' = more
        /\ scrapeAllBicycles' = all
        /\ page' = page + 1
        /\ IF more /\ WithinCeiling(page + 1)
             THEN pc' = "scrape" /\ scrapedResult' = scrapedResult
             ELSE pc' = "orch_scraping" /\ scrapedResult' = Return(all)
  /\ onlyOneUnknown' = (onlyOneUnknown /\ result = PageResult(1, "null"))
  /\ result' = NoResult
  /\ attempt' = 1
  /\ waitTime' = 0
  /\ lastReq' = NoReq
  /\ lastOutcome' = NoOutcome
  /\ UNCHANGED <<calls, apiResult, playwrightResult, response>>
  /\ UNCHANGED <<apiVars, pwVars>>
  /\ UNCHANGED dataVars

\* ------------------------------------------------------------------- Spec
Next ==
  \/ GET
  \/ OrchAfterRestAPI
  \/ OrchAfterPlaywright
  \/ OrchAfterScraping
  \/ ApiFetchOk
  \/ ApiFetchStatus
  \/ ApiFetchThrow
  \/ PwLaunchOk
  \/ PwLaunchFail
  \/ PwStepOk
  \/ PwStepFail
  \/ PwWait
  \/ PwCloseOk
  \/ PwCloseFail
  \/ PwParse
  \/ PwParseFail
  \/ PageFetchOk
  \/ PageFetchFail
  \/ PageRetry
  \/ ScrapePage

Spec == Init /\ [][Next]_vars

\* the request awaiting its response
InFlight ==
  IF pc = "api" THEN ApiRequest
  ELSE IF pc = "scrape" THEN PageRequest
  ELSE NoReq

TypeOK ==
  /\ pc \in {"idle", "api", "orch_api", "pw_launch", "pw_newContext", "pw_newPage",
             "pw_goto", "pw_wait", "pw_content", "pw_close", "pw_parse",
             "orch_playwright", "scrape", "backoff", "page_done", "orch_scraping", "done"}
  /\ endpoint \in 1..Len(endpoints)
  /\ method \in 1..Len(methods)
  /\ apiPage \in 0..(MAX_API_PAGES - 1)
  /\ page \in 1..(MAX_SCRAPING_PAGES + 1)
  /\ attempt \in 1..maxRetries
  /\ hasMorePages \in BOOLEAN

\* =================================================== record-level model
\* The same pipeline with the content of the records spelled out.  A string
\* is a sequence of characters; in a URL the characters that no test looks
\* into are grouped ("http" and "/" are what startsWith tests).  undefined is
\* a value of its own.
Undefined == <<"undefined">>
Empty == <<>>

\* a value that JavaScript's ||, ?: and && treat as true
Truthy(v) == v # Undefined /\ v # Empty
\* a || b
Or(a, b) == IF Truthy(a) THEN a ELSE b

UpperCase == <<"T", "O", "M", "F", "X", "R", "S", "N", "B", "A", "D">>
LowerCase == <<"t", "o", "m", "f", "x", "r", "s", "n", "b", "a", "d">>

\* String.prototype.toLowerCase
toLowerCase(s) ==
  [i \in 1..Len(s) |->
     IF \E k \in 1..Len(UpperCase) : UpperCase[k] = s[i]
       THEN LowerCase[CHOOSE k \in 1..Len(UpperCase) : UpperCase[k] = s[i]]
       ELSE s[i]]

\* String.prototype.includes
includes(s, t) == \E k \in 0..(Len(s) - Len(t)) : SubSeq(s, k + 1, k + Len(t)) = t

\* String.prototype.startsWith
startsWith(s, t) == Len(s) >= Len(t) /\ SubSeq(s, 1, Len(t)) = t

\* ------------------------------------------------------------ local filter
FilterFields == {"marca", "modelo", "color", "ciudad", "provincia",
                 "numeroSerie", "numeroMatricula", "searchTerm"}

\* Matches comparing the characters as they are
Matches_CaseSensitive(v, t) == includes(v, t)

\* b.marca.toLowerCase().includes(filters.marca!.toLowerCase()), route.ts:368
Matches(v, t) == includes(toLowerCase(v), toLowerCase(t))

\* OptionalMatches letting a record without the field through
OptionalMatches_AbsentPasses(v, t) == v = Undefined \/ Matches(v, t)

\* b.ciudad?.toLowerCase().includes(...), route.ts:377: undefined when the
\* field is absent, which filter() takes as false
OptionalMatches(v, t) == v # Undefined /\ Matches(v, t)

\* if (filters.marca) filtered = filtered.filter(b => b.marca...), route.ts:367-375
FilterBy(list, field, f) ==
  IF Truthy(f[field])
    THEN SelectSeq(list, LAMBDA b : Matches(b[field], f[field]))
    ELSE list

\* if (filters.ciudad) filtered = filtered.filter(b => b.ciudad?. ...), route.ts:376-387
OptionalFilterBy(list, field, f) ==
  IF Truthy(f[field])
    THEN SelectSeq(list, LAMBDA b : OptionalMatches(b[field], f[field]))
    ELSE list

\* FilterBySearchTerm handing back the records that pass in reverse order
FilterBySearchTerm_Reversed(list, f) ==
  IF Truthy(f.searchTerm)
    THEN LET kept == SelectSeq(list, LAMBDA b :
                       \/ Matches(b.marca, f.searchTerm)
                       \/ Matches(b.modelo, f.searchTerm)
                       \/ Matches(b.color, f.searchTerm)
                       \/ OptionalMatches(b.ciudad, f.searchTerm)
                       \/ OptionalMatches(b.provincia, f.searchTerm)
                       \/ OptionalMatches(b.descripcion, f.searchTerm))
         IN [i \in 1..Len(kept) |-> kept[Len(kept) + 1 - i]]
    ELSE list

\* the general term, route.ts:388-398
FilterBySearchTerm(list, f) ==
  IF Truthy(f.searchTerm)
    THEN SelectSeq(list, LAMBDA b :
           \/ Matches(b.marca, f.searchTerm)
           \/ Matches(b.modelo, f.searchTerm)
           \/ Matches(b.color, f.searchTerm)
           \/ OptionalMatches(b.ciudad, f.searchTerm)
           \/ OptionalMatches(b.provincia, f.searchTerm)
           \/ OptionalMatches(b.descripcion, f.searchTerm))
    ELSE list

\* `let filtered = bicycles; ... return filtered`, route.ts:365-401
Filtered(list, f) ==
  LET f1 == FilterBy(list, "marca", f)
      f2 == FilterBy(f1, "modelo", f)
      f3 == FilterBy(f2, "color", f)
      f4 == OptionalFilterBy(f3, "ciudad", f)
      f5 == OptionalFilterBy(f4, "provincia", f)
      f6 == OptionalFilterBy(f5, "numeroSerie", f)
      f7 == OptionalFilterBy(f6, "numeroMatricula", f)
  IN FilterBySearchTerm(f7, f)

\* ----------------------------------------------------------- normalisation
Placeholder == <<"/", "images/bicicletas/placeholder.svg">>
\* the origin parseAPIResponse and fetchBicyclesWithPlaywright prepend,
\* route.ts:460 and 348
WwwOrigin == <<"http", "s://www.biciregistro.es">>
\* the origin extractImage prepends, route.ts:783
BareOrigin == <<"http", "s://biciregistro.es">>
Desconocida == <<"D", "e", "s", "c", "o", "n", "o", "c", "i", "d", "a">>
SinModelo == <<"S", "i", "n", " ", "m", "o", "d", "e", "l", "o">>

\* extractImage, route.ts:776-790, given the src (or data-src) of the first
\* selector that has one, undefined when none has
extractImage(src) ==
  IF Truthy(src)
    THEN IF startsWith(src, <<"/">>) THEN BareOrigin \o src ELSE src
    ELSE Empty

\* `imagen ? (imagen.startsWith('http') ? imagen : origin + imagen) : placeholder`,
\* route.ts:348-349
RenderedImage(imagen) ==
  IF Truthy(imagen)
    THEN IF startsWith(imagen, <<"http">>) THEN imagen ELSE WwwOrigin \o imagen
    ELSE Placeholder

\* descripcionFinal, route.ts:323
descripcionFinal(card) == Or(card.tipo, Or(card.descripcion, Undefined))

\* `if (marca || modelo || descripcionFinal)`, route.ts:337
RenderedKept(card) ==
  Truthy(card.marca) \/ Truthy(card.modelo) \/ Truthy(descripcionFinal(card))

\* the Bicycle built from one card of the rendered document, route.ts:264-353;
\* a card is what extractText, extractImage's selectors and the row patterns
\* find in it ('' where they find nothing)
RenderedBicycle(card) ==
  LET imagen == Or(extractImage(card.src), Undefined)
  IN [marca |-> Or(card.marca, Desconocida),
      modelo |-> Or(card.modelo, SinModelo),
      color |-> Or(card.color, Empty),
      numeroSerie |-> Or(card.numeroSerie, Undefined),
      numeroMatricula |-> Or(card.numeroMatricula, Undefined),
      ciudad |-> Or(card.deposito, Or(card.ciudad, Undefined)),
      provincia |-> Or(card.provincia, Undefined),
      descripcion |-> descripcionFinal(card),
      imagen |-> RenderedImage(imagen),
      imagenCompleta |-> RenderedImage(imagen)]

\* `if (marca || modelo)`, route.ts:731
ScrapedKept(card) == Truthy(card.marca) \/ Truthy(card.modelo)

\* the Bicycle parseBicycleData builds from one card, route.ts:709-747
ScrapedBicycle(card) ==
  LET imagen == Or(extractImage(card.src), Undefined)
  IN [marca |-> Or(card.marca, Empty),
      modelo |-> Or(card.modelo, Empty),
      color |-> Or(card.color, Empty),
      numeroSerie |-> Or(card.numeroSerie, Undefined),
      numeroMatricula |-> Or(card.numeroMatricula, Undefined),
      ciudad |-> Or(card.ciudad, Undefined),
      provincia |-> Or(card.provincia, Undefined),
      descripcion |-> Or(card.descripcion, Undefined),
      imagen |-> Or(imagen, Placeholder),
      imagenCompleta |-> Or(imagen, Placeholder)]

\* "Fix relative image URLs", route.ts:459-464
FixRelative(url) ==
  IF Truthy(url) /\ startsWith(url, <<"/">>) THEN WwwOrigin \o url ELSE url

\* ParsedBicycle with the English alias of the brand tried first
ParsedBicycle_BrandFirst(item) ==
  [marca |-> Or(item.brand, Or(item.marca, Empty)),
   modelo |-> Or(item.modelo, Or(item.model, Empty)),
   color |-> Or(item.color, Empty),
   numeroSerie |-> Or(item.numeroSerie, Or(item.serialNumber, item.numSerie)),
   numeroMatricula |-> Or(item.numeroMatricula, Or(item.registrationNumber, item.numMatricula)),
   ciudad |-> Or(item.ciudad, item.city),
   provincia |-> Or(item.provincia, item.province),
   descripcion |-> Or(item.descripcion, item.description),
   imagen |-> FixRelative(Or(item.imagen, Or(item.image, Or(item.foto, Placeholder)))),
   imagenCompleta |->
     FixRelative(Or(item.imagenCompleta, Or(item.imagen, Or(item.image, Placeholder))))]

\* the Bicycle parseAPIResponse builds from one item, route.ts:439-466
ParsedBicycle(item) ==
  [marca |-> Or(item.marca, Or(item.brand, Empty)),
   modelo |-> Or(item.modelo, Or(item.model, Empty)),
   color |-> Or(item.color, Empty),
   numeroSerie |-> Or(item.numeroSerie, Or(item.serialNumber, item.numSerie)),
   numeroMatricula |-> Or(item.numeroMatricula, Or(item.registrationNumber, item.numMatricula)),
   ciudad |-> Or(item.ciudad, item.city),
   provincia |-> Or(item.provincia, item.province),
   descripcion |-> Or(item.descripcion, item.description),
   imagen |-> FixRelative(Or(item.imagen, Or(item.image, Or(item.foto, Placeholder)))),
   imagenCompleta |->
     FixRelative(Or(item.imagenCompleta, Or(item.imagen, Or(item.image, Placeholder))))]

\* `for (const item of items) { ... bicycles.push(bicycle) }`, route.ts:433-467
ParsedBicycles(items) == [i \in 1..Len(items) |-> ParsedBicycle(items[i])]

\* `$cards.each(...)` of fetchBicyclesWithPlaywright, route.ts:260-360
RenderedBicycles(cards) ==
  LET kept == SelectSeq(cards, RenderedKept)
  IN [i \in 1..Len(kept) |-> RenderedBicycle(kept[i])]

\* `$cards.each(...)` of parseBicycleData, route.ts:704-754
ScrapedBicycles(cards) ==
  LET kept == SelectSeq(cards, ScrapedKept)
  IN [i \in 1..Len(kept) |-> ScrapedBicycle(kept[i])]

\* ------------------------------------------------------------------ inputs
Trek == <<"T", "r", "e", "k">>
Orbea == <<"O", "r", "b", "e", "a">>
FX == <<"F", "X">>
Rojo == <<"R", "o", "j", "o">>
Madrid == <<"M", "a", "d", "r", "i", "d">>
MTB == <<"M", "T", "B">>
SN1 == <<"S", "N", "1">>
B7 == <<"B", "7">>

RootRelative == <<"/", "img/bike1.jpg">>
Absolute == <<"http", "s://cdn.example.test/bike2.jpg">>
Relative == <<"img/bike3.jpg">>

\* the lists of at most n elements of S
RECURSIVE ListsUpTo(_, _)
ListsUpTo(S, n) ==
  IF n = 0 THEN {<<>>}
  ELSE LET shorter == ListsUpTo(S, n - 1)
       IN shorter \cup { Append(l, x) : l \in { m \in shorter : Len(m) = n - 1 }, x \in S }

\* SearchFilters, src/types/bicycle.ts:21-30, as GET builds it (route.ts:1077-1086:
\* an empty parameter becomes undefined)
NoFilters == [k \in FilterFields |-> Undefined]
\* every filter is supplied alone; the filters supplied together are one on a
\* required field, two on optional fields and the general term
CombinedFilters == {"marca", "ciudad", "numeroSerie", "searchTerm"}
FilterSets ==
  { f \in [marca : {Undefined, <<"t", "r", "e", "k">>},
           modelo : {Undefined, <<"f", "x">>},
           color : {Undefined, <<"r", "o", "j">>},
           ciudad : {Undefined, <<"m", "a", "d", "r", "i", "d">>},
           provincia : {Undefined, <<"M", "A", "D">>},
           numeroSerie : {Undefined, <<"s", "n">>},
           numeroMatricula : {Undefined, <<"b", "7">>},
           searchTerm : {Undefined, <<"m", "a", "d", "r", "i", "d">>, <<"m", "t", "b">>}] :
      LET supplied == { k \in FilterFields : f[k] # Undefined }
      IN \/ Cardinality(supplied) <= 1
         \/ supplied \subseteq CombinedFilters /\ Cardinality(supplied) <= MaxSupplied }

\* the cards of a document: what the selectors find in each
CardKeys == {"marca", "modelo", "color", "tipo", "deposito", "numeroSerie",
             "numeroMatricula", "ciudad", "provincia", "descripcion", "src"}
NoCard == [k \in CardKeys |-> IF k = "src" THEN Undefined ELSE Empty]
OptionalFields == {"numeroSerie", "numeroMatricula", "ciudad", "provincia", "descripcion"}
OptionalValue == [numeroSerie |-> SN1, numeroMatricula |-> B7, ciudad |-> Madrid,
                  provincia |-> Madrid, descripcion |-> MTB]
Cards ==
  { [k \in CardKeys |->
       IF k = "marca" THEN Trek ELSE IF k = "modelo" THEN FX
       ELSE IF k = "color" THEN Rojo
       ELSE IF k \in present THEN OptionalValue[k] ELSE NoCard[k]] :
      present \in {{}, OptionalFields} \cup { {k} : k \in OptionalFields } }
  \cup { [NoCard EXCEPT !.marca = Orbea, !.ciudad = c] : c \in {Empty, Madrid} }
  \cup { [NoCard EXCEPT !.descripcion = d, !.color = Rojo] : d \in {Empty, MTB} }
  \cup { [NoCard EXCEPT !.marca = Trek, !.src = s] : s \in {RootRelative, Absolute, Relative} }
  \cup { [NoCard EXCEPT !.tipo = MTB], [NoCard EXCEPT !.modelo = FX, !.deposito = Madrid] }

\* the items of an API response: each key absent, empty or set
ItemKeys == {"marca", "brand", "modelo", "model", "color", "numeroSerie", "serialNumber",
             "numSerie", "numeroMatricula", "registrationNumber", "numMatricula",
             "ciudad", "city", "provincia", "province", "descripcion", "description",
             "imagen", "image", "foto", "imagenCompleta"}
NoItem == [k \in ItemKeys |-> Undefined]
AliasPairs == {<<"marca", "brand">>, <<"modelo", "model">>, <<"ciudad", "city">>,
               <<"provincia", "province">>, <<"descripcion", "description">>}
Items ==
  { [NoItem EXCEPT ![g[1]] = a, ![g[2]] = b] :
      g \in AliasPairs, a \in {Undefined, Empty, Orbea}, b \in {Undefined, Trek} }
  \cup { [NoItem EXCEPT !.marca = Trek, !.numeroSerie = a, !.serialNumber = b, !.numSerie = c] :
           a \in {Undefined, Empty, SN1}, b \in {Undefined, B7}, c \in {Undefined, MTB} }
  \cup { [NoItem EXCEPT !.marca = Trek, !.imagen = a, !.image = o[1], !.foto = o[2],
                        !.imagenCompleta = o[3]] :
           a \in {Undefined, RootRelative, Absolute, Relative},
           o \in { <<Undefined, Undefined, Undefined>>,
                   <<<<"http", "s://cdn.example.test/image.jpg">>, Undefined, Undefined>>,
                   <<Undefined, <<"/", "foto.jpg">>, Undefined>>,
                   <<Undefined, Undefined, <<"/", "full.jpg">>>> } }

\* ----------------------------------------------- record-level specification
\* One request with its filters; every transport step succeeds, and each
\* strategy is answered by a single page (every endpoint and method of the
\* REST API by the same one, without pagination metadata; the HTML site by a
\* page without a next link).  The orchestrator is the one of Spec.
RecordInit ==
  /\ InitHandler
  /\ filters \in FilterSets
  /\ NotAborted
  /\ NoExtraction
  /\ NoParse
  /\ NoDocument
  /\ RelayIdle

\* fetchFromRestAPI, route.ts:73-177: parseAPIResponse on the items of the
\* page, no local filter, return allBicycles
RecordsRestAPI ==
  /\ pc = "api"
  /\ \E items \in ListsUpTo(Items, MaxPageRecords) :
       LET parsed == ParsedBicycles(items)
       IN /\ rawItems' = items
          /\ apiAllBicycles' = parsed
          /\ apiResult' = Return(parsed)
  /\ pc' = "orch_api"
  /\ UNCHANGED <<endpoint, method, apiPage, midRunFaults>>
  /\ UNCHANGED <<calls, playwrightResult, scrapedResult, response>>
  /\ UNCHANGED <<pwVars, scrapeVars, httpVars, filters, pwBicycles, sideVars>>

\* fetchBicyclesWithPlaywright, route.ts:180-401: the browser renders the
\* document and is closed, the cards are extracted, the kept ones become
\* bicycles, the local filter is applied
RecordsPlaywright ==
  /\ pc = "pw_launch"
  /\ \E cards \in ListsUpTo(Cards, MaxCards) :
       LET extracted == RenderedBicycles(cards)
       IN /\ pwBicycles' = extracted
          /\ playwrightResult' = Return(Filtered(extracted, filters))
  /\ session' = "closed"
  /\ closeCalls' = 1
  /\ pc' = "orch_playwright"
  /\ UNCHANGED <<browser, markerSeen, filters, rawItems, sideVars>>
  /\ UNCHANGED <<calls, apiResult, scrapedResult, response>>
  /\ UNCHANGED <<apiVars, scrapeVars, httpVars>>

\* fetchBicyclesViaScraping, route.ts:492-528, with fetchBicyclesPage and
\* parseBicycleData: the cards of page 1 kept by route.ts:731 become
\* bicycles; no local filter
RecordsScraping ==
  /\ pc = "scrape"
  /\ \E cards \in ListsUpTo(Cards, MaxPageRecords) :
       LET parsed == ScrapedBicycles(cards)
       IN /\ scrapeAllBicycles' = parsed
          /\ scrapedResult' = Return(parsed)
  /\ page' = page + 1
  /\ pc' = "orch_scraping"
  /\ UNCHANGED <<hasMorePages, consecutiveEmptyPages, result, attempt, waitTime, onlyOneUnknown>>
  /\ UNCHANGED <<calls, apiResult, playwrightResult, response>>
  /\ UNCHANGED <<apiVars, pwVars, httpVars, dataVars>>

RecordNext ==
  \/ GET
  \/ RecordsRestAPI
  \/ OrchAfterRestAPI
  \/ RecordsPlaywright
  \/ OrchAfterPlaywright
  \/ RecordsScraping
  \/ OrchAfterScraping

RecordSpec == RecordInit /\ [][RecordNext]_vars

\* --------------------------------------- failing-upstream specification
\* Spec with an HTML listing whose every request fails (a non-ok status or a
\* rejected fetch): no attempt of fetchBicyclesPage reaches route.ts:587
FailingNext ==
  \/ GET
  \/ OrchAfterRestAPI
  \/ OrchAfterPlaywright
  \/ OrchAfterScraping
  \/ ApiFetchOk
  \/ ApiFetchStatus
  \/ ApiFetchThrow
  \/ PwLaunchOk
  \/ PwLaunchFail
  \/ PwStepOk
  \/ PwStepFail
  \/ PwWait
  \/ PwCloseOk
  \/ PwCloseFail
  \/ PwParse
  \/ PwParseFail
  \/ PageFetchFail
  \/ PageRetry
  \/ ScrapePage

FailingSpec == Init /\ [][FailingNext]_vars

\* ------------------------------------------- cancellation specification
\* the caller aborts the request (or its own timeout fires) while the
\* handler is at work: GET, route.ts:1073-1103, never reads request.signal,
\* and the fetches carry only their own AbortSignal.timeout, route.ts:120
\* and 580, so nothing in the handler reacts
CallerAbort ==
  /\ pc \notin {"idle", "done"}
  /\ ~aborted
  /\ aborted' = TRUE
  /\ UNCHANGED <<pc, orchVars, apiVars, pwVars, scrapeVars, httpVars>>
  /\ UNCHANGED <<filters, pwBicycles, rawItems, extractVars, relayVars, parseVars, pageParseVars>>

AbortNext == Next \/ CallerAbort

AbortSpec == Init /\ [][AbortNext]_vars

\* ------------------------------------------------------------ extractText
Whitespace == {" ", "\n"}

\* String.prototype.trim, route.ts:768
RECURSIVE trimStart(_)
trimStart(s) == IF s # <<>> /\ Head(s) \in Whitespace THEN trimStart(Tail(s)) ELSE s

RECURSIVE trimEnd(_)
trimEnd(s) ==
  IF s # <<>> /\ s[Len(s)] \in Whitespace THEN trimEnd(SubSeq(s, 1, Len(s) - 1)) ELSE s

trim(s) == trimEnd(trimStart(s))

\* FirstText with .last() for .first()
FirstText_LastMatch(el, selector) ==
  IF el[selector] = <<>> THEN Empty ELSE el[selector][Len(el[selector])]

\* `$element.find(selector).first().text()`, route.ts:768: el gives for each
\* selector the texts of the descendants it matches, in document order; the
\* text of an empty selection is ''
FirstText(el, selector) ==
  IF el[selector] = <<>> THEN Empty ELSE el[selector][1]

\* extractText, route.ts:766-773
RECURSIVE extractText(_, _)
extractText(el, selectors) ==
  IF selectors = <<>> THEN Empty
  ELSE LET text == trim(FirstText(el, Head(selectors)))
       IN IF text # Empty THEN text ELSE extractText(el, Tail(selectors))

\* the selectors of the colour, route.ts:711, and lists made of them
ColorSelectors == <<".color", "[data-color]", "dt:contains(\"Color\") + dd">>
SelectorLists ==
  { ColorSelectors,
    <<ColorSelectors[3], ColorSelectors[2], ColorSelectors[1]>>,
    <<ColorSelectors[2]>>,
    <<>> }

\* the texts of matched elements: blank, padded, plain; an element without text
Blank == <<" ", "\n">>
PaddedRojo == <<"\n", " ">> \o Rojo \o <<" ">>
Azul == <<"A", "z", "u", "l">>
Elements ==
  [ { ColorSelectors[k] : k \in 1..Len(ColorSelectors) } ->
      ListsUpTo({Blank, PaddedRojo, Azul}, MaxMatches) \cup {<<Empty>>} ]

\* ----------------------------------------------- extraction specification
\* one call of extractText on an element and a list of selectors
ExtractInit ==
  /\ InitHandler
  /\ filters = "any"
  /\ NotAborted
  /\ RelayIdle
  /\ NoParse
  /\ NoDocument
  /\ element \in Elements
  /\ selectorList \in SelectorLists
  /\ extractResult = NotRun

ExtractText ==
  /\ extractResult = NotRun
  /\ extractResult' = Return(extractText(element, selectorList))
  /\ UNCHANGED <<element, selectorList, aborted, relayVars, parseVars, pageParseVars>>
  /\ UNCHANGED <<filters, pwBicycles, rawItems>>
  /\ UNCHANGED <<pc, orchVars, apiVars, pwVars, scrapeVars, httpVars>>

ExtractNext == ExtractText

ExtractSpec == ExtractInit /\ [][ExtractNext]_vars

\* -------------------------------------------------------- response shapes
\* what a key of the body holds: nothing, a value that is no array, an array
NoValue == [type |-> "undefined"]
StringValue == [type |-> "string"]
ArrayValue(items) == [type |-> "array", items |-> items]

\* `data.key && Array.isArray(data.key)`, route.ts:422-429
HoldsArray(v) == v.type = "array"

\* itemsOf with `results` looked at before the other keys
itemsOf_ResultsFirst(data) ==
  IF data.kind = "array" THEN data.items
  ELSE IF HoldsArray(data.results) THEN data.results.items
  ELSE IF HoldsArray(data.content) THEN data.content.items
  ELSE IF HoldsArray(data.data) THEN data.data.items
  ELSE IF HoldsArray(data.bicicletas) THEN data.bicicletas.items
  ELSE <<>>

\* "Handle different response structures", route.ts:417-431, for a body
\* that is an array or an object
itemsOf(data) ==
  IF data.kind = "array" THEN data.items
  ELSE IF HoldsArray(data.content) THEN data.content.items
  ELSE IF HoldsArray(data.data) THEN data.data.items
  ELSE IF HoldsArray(data.bicicletas) THEN data.bicicletas.items
  ELSE IF HoldsArray(data.results) THEN data.results.items
  ELSE <<>>

\* parseAPIResponse(data), route.ts:413-473: reading a key of null throws a
\* TypeError, which the catch turns into the empty list; a string or number
\* has none of the keys
ParsedBody(data) ==
  IF data.kind = "null" THEN <<>>
  ELSE IF data.kind = "primitive" THEN ParsedBicycles(<<>>)
  ELSE ParsedBicycles(itemsOf(data))

\* the bodies: null, a string, a bare array, an object with each of the four
\* keys absent, a string or an array
ShapeKeys == <<"content", "data", "bicicletas", "results">>
ShapeItems == { [NoItem EXCEPT !.marca = Trek], [NoItem EXCEPT !.marca = Orbea] }
ShapeValues ==
  {NoValue, StringValue} \cup { ArrayValue(l) : l \in ListsUpTo(ShapeItems, MaxPageRecords) }
Bodies ==
  { [kind |-> "null"], [kind |-> "primitive"] }
  \cup { [kind |-> "array", items |-> l] : l \in ListsUpTo(ShapeItems, MaxPageRecords) }
  \cup { [kind |-> "object", content |-> c, data |-> d, bicicletas |-> b, results |-> r] :
           c \in ShapeValues, d \in ShapeValues, b \in ShapeValues, r \in ShapeValues }

\* ------------------------------------------------- parsing specification
\* one call of parseAPIResponse on a body
ParseInit ==
  /\ InitHandler
  /\ filters = "any"
  /\ NotAborted
  /\ NoExtraction
  /\ RelayIdle
  /\ NoDocument
  /\ body \in Bodies
  /\ parseResult = NotRun

ParseAPIResponse ==
  /\ parseResult = NotRun
  /\ parseResult' = Return(ParsedBody(body))
  /\ UNCHANGED <<body, aborted, extractVars, relayVars, pageParseVars, filters, pwBicycles, rawItems>>
  /\ UNCHANGED <<pc, orchVars, apiVars, pwVars, scrapeVars, httpVars>>

ParseNext == ParseAPIResponse

ParseSpec == ParseInit /\ [][ParseNext]_vars

\* ------------------------------------------------------ pagination signal
\* `const paginationSelectors`, route.ts:627-635; the single right-pointing
\* angle quotation mark (U+203A) of the source is written >
paginationSelectors ==
  << "a.next:not(.disabled)",
     "a[rel=\"next\"]",
     "a:contains(\"Siguiente\"):not(.disabled)",
     "a:contains(\">\"):not(.disabled)",
     "li.next:not(.disabled) a",
     ".pagination .next:not(.disabled) a",
     "nav[aria-label*=\"pagination\" i] a:contains(\">\")" >>

\* `const lastPageSelectors`, route.ts:648-653
lastPageSelectors ==
  << "a.next.disabled",
     "li.next.disabled",
     ".pagination .disabled:contains(\"Siguiente\")",
     ".pagination .disabled:contains(\">\")" >>

\* a pagination control of the document: an anchor with its classes, its rel
\* attribute and its text, the list item around it if there is one, and
\* whether it stands inside .pagination and inside a nav labelled pagination
Control(li, aNext, aDisabled, relNext, text, inPagination, inNav) ==
  [li |-> li, aNext |-> aNext, aDisabled |-> aDisabled, relNext |-> relNext,
   text |-> text, inPagination |-> inPagination, inNav |-> inNav]

Controls ==
  { Control(li, aNext, aDisabled, relNext, text, inPagination, inNav) :
      li \in {"none", "li.next", "li.next.disabled"},
      aNext \in BOOLEAN, aDisabled \in BOOLEAN, relNext \in BOOLEAN,
      text \in {"Siguiente", ">", "2"},
      inPagination \in BOOLEAN, inNav \in BOOLEAN }

\* the control has an element of class disabled
HasDisabled(c) == c.aDisabled \/ c.li = "li.next.disabled"

\* $(selector) finds an element in the control, by the selector's CSS meaning
SelectorFinds(selector, c) ==
  CASE selector = "a.next:not(.disabled)" -> c.aNext /\ ~c.aDisabled
    [] selector = "a[rel=\"next\"]" -> c.relNext
    [] selector = "a:contains(\"Siguiente\"):not(.disabled)" -> c.text = "Siguiente" /\ ~c.aDisabled
    [] selector = "a:contains(\">\"):not(.disabled)" -> c.text = ">" /\ ~c.aDisabled
    [] selector = "li.next:not(.disabled) a" -> c.li = "li.next"
    [] selector = ".pagination .next:not(.disabled) a" -> c.inPagination /\ c.li = "li.next"
    [] selector = "nav[aria-label*=\"pagination\" i] a:contains(\">\")" -> c.inNav /\ c.text = ">"
    [] selector = "a.next.disabled" -> c.aNext /\ c.aDisabled
    [] selector = "li.next.disabled" -> c.li = "li.next.disabled"
    [] selector = ".pagination .disabled:contains(\"Siguiente\")" ->
         c.inPagination /\ HasDisabled(c) /\ c.text = "Siguiente"
    [] selector = ".pagination .disabled:contains(\">\")" ->
         c.inPagination /\ HasDisabled(c) /\ c.text = ">"

\* `$(selector).length > 0` on the document
Found(selector, doc) == \E c \in doc.controls : SelectorFinds(selector, c)

\* the for loops of route.ts:637-644 and 655-662: the selectors are tried in
\* order from position k and the first that finds an element ends the loop
RECURSIVE AnyFound(_, _, _)
AnyFound(selectors, k, doc) ==
  IF k > Len(selectors) THEN FALSE
  ELSE IF Found(selectors[k], doc) THEN TRUE
  ELSE AnyFound(selectors, k + 1, doc)

\* parseBicycleData(html), route.ts:619-763, as far as the scraper looks at it
parseBicycleData(doc) ==
  PageResult(doc.records,
             DetectPagination(AnyFound(paginationSelectors, 1, doc),
                              AnyFound(lastPageSelectors, 1, doc)))

\* the subsets of S with at most n elements
RECURSIVE SetsUpTo(_, _)
SetsUpTo(S, n) ==
  IF n = 0 THEN {{}}
  ELSE LET smaller == SetsUpTo(S, n - 1)
       IN smaller \cup { x \cup {c} : x \in smaller, c \in S }

\* documents: up to MaxControls pagination controls and up to MaxPageRecords
\* cards with a brand or a model, the cards parseBicycleData keeps
\* (route.ts:731)
Documents ==
  { [controls |-> cs, records |-> n] :
      cs \in SetsUpTo(Controls, MaxControls),
      n \in 0..MaxPageRecords }

\* ---------------------------------------------- pagination specification
\* one call of parseBicycleData on a document
PaginationInit ==
  /\ InitHandler
  /\ filters = "any"
  /\ NotAborted
  /\ NoExtraction
  /\ NoParse
  /\ RelayIdle
  /\ html \in Documents
  /\ pageParse = NotRun

ParseBicycleData ==
  /\ pageParse = NotRun
  /\ pageParse' = Return(parseBicycleData(html))
  /\ UNCHANGED <<html, aborted, extractVars, relayVars, parseVars, filters, pwBicycles, rawItems>>
  /\ UNCHANGED <<pc, orchVars, apiVars, pwVars, scrapeVars, httpVars>>

PaginationNext == ParseBicycleData

PaginationSpec == PaginationInit /\ [][PaginationNext]_vars

\* ------------------------------------------------------------- image relay
\* searchParams.get('url') without the parameter
Null == <<"null">>

\* the text imageUrl.includes looks for, route.ts (config/colors):57
UpstreamName == <<"biciregistro.es">>

\* URLs as the caller may send them: scheme, host and the rest; the name of
\* the upstream is one character group wherever it occurs
RelaySchemes == {"https://", "http://"}
RelayHosts ==
  { <<"biciregistro.es">>,
    <<"www.", "biciregistro.es">>,
    <<"cdn.example">>,
    <<"evil.example">>,
    <<"biciregistro.es", ".evil.example">> }
RelayPaths ==
  { <<>>,
    <<"/", "fotos/1.jpg">>,
    <<"/", "biciregistro.es", "/1.jpg">>,
    <<"/", "fotos/1.jpg", "?", "ref=", "biciregistro.es">> }
ImageUrls ==
  { <<scheme>> \o host \o path :
      scheme \in RelaySchemes, host \in RelayHosts, path \in RelayPaths }
  \cup {Null, Empty}

\* NextResponse.json({ error }, { status })
RelayError(status, error) == [status |-> status, error |-> error]

\* --------------------------------------------------- relay specification
\* one request to the image relay
RelayInit ==
  /\ InitHandler
  /\ filters = "any"
  /\ NotAborted
  /\ NoExtraction
  /\ NoParse
  /\ NoDocument
  /\ relayPc = "start"
  /\ imageUrl \in ImageUrls
  /\ outbound = <<>>
  /\ relayResponse = [status |-> 0]

\* GET of the relay up to `await fetch(imageUrl, ...)`, route.ts
\* (config/colors):46-69: a missing URL and a URL without the upstream's
\* name are answered 400, any other URL is fetched
RelayValidate ==
  /\ relayPc = "start"
  /\ IF imageUrl = Null \/ imageUrl = Empty
       THEN /\ relayResponse' = RelayError(400, "Missing image URL")
            /\ relayPc' = "done"
            /\ outbound' = outbound
       ELSE IF ~includes(imageUrl, UpstreamName)
       THEN /\ relayResponse' = RelayError(400, "Invalid image source")
            /\ relayPc' = "done"
            /\ outbound' = outbound
       ELSE /\ outbound' = Append(outbound, imageUrl)
            /\ relayPc' = "fetch"
            /\ relayResponse' = relayResponse
  /\ UNCHANGED <<imageUrl, aborted, extractVars, parseVars, pageParseVars, filters, pwBicycles, rawItems>>
  /\ UNCHANGED <<pc, orchVars, apiVars, pwVars, scrapeVars, httpVars>>

\* the fetch resolves with response.ok
RelayFetchOk ==
  /\ relayPc = "fetch"
  /\ relayPc' = "body"
  /\ UNCHANGED <<imageUrl, outbound, relayResponse, aborted, extractVars, parseVars, pageParseVars>>
  /\ UNCHANGED <<filters, pwBicycles, rawItems>>
  /\ UNCHANGED <<pc, orchVars, apiVars, pwVars, scrapeVars, httpVars>>

\* the fetch resolves with another status, which is passed on, route.ts
\* (config/colors):71-76
RelayFetchStatus ==
  /\ relayPc = "fetch"
  /\ \E c \in {403, 404} :
       relayResponse' = RelayError(c, "Failed to fetch image")
  /\ relayPc' = "done"
  /\ UNCHANGED <<imageUrl, outbound, aborted, extractVars, parseVars, pageParseVars>>
  /\ UNCHANGED <<filters, pwBicycles, rawItems>>
  /\ UNCHANGED <<pc, orchVars, apiVars, pwVars, scrapeVars, httpVars>>

\* the fetch or response.arrayBuffer() rejects: catch, route.ts
\* (config/colors):90-96
RelayThrow ==
  /\ relayPc \in {"fetch", "body"}
  /\ relayResponse' = RelayError(500, "Failed to fetch image")
  /\ relayPc' = "done"
  /\ UNCHANGED <<imageUrl, outbound, aborted, extractVars, parseVars, pageParseVars>>
  /\ UNCHANGED <<filters, pwBicycles, rawItems>>
  /\ UNCHANGED <<pc, orchVars, apiVars, pwVars, scrapeVars, httpVars>>

\* the bytes are returned with the content type of the upstream, or
\* image/jpeg when the header is absent (""), and a cache lifetime, route.ts
\* (config/colors):79-89
RelayBodyOk ==
  /\ relayPc = "body"
  /\ \E contentType \in {"", "image/png"} :
       relayResponse' =
         [status |-> 200,
          contentType |-> IF contentType = "" THEN "image/jpeg" ELSE contentType,
          cacheControl |-> "public, max-age=86400"]
  /\ relayPc' = "done"
  /\ UNCHANGED <<imageUrl, outbound, aborted, extractVars, parseVars, pageParseVars>>
  /\ UNCHANGED <<filters, pwBicycles, rawItems>>
  /\ UNCHANGED <<pc, orchVars, apiVars, pwVars, scrapeVars, httpVars>>

RelayNext ==
  \/ RelayValidate
  \/ RelayFetchOk
  \/ RelayFetchStatus
  \/ RelayThrow
  \/ RelayBodyOk

RelaySpec == RelayInit /\ [][RelayNext]_vars

\* ============================================================== properties
StrategyOrder == <<"api", "playwright", "scraping">>
NonEmpty(o) == o.kind = "return" /\ Len(o.value) > 0
EmptyReturn(o) == o.kind = "return" /\ Len(o.value) = 0
EmptyOrFailed(o) == o.kind = "throw" \/ EmptyReturn(o)
PwPcs == {"pw_launch", "pw_newContext", "pw_newPage", "pw_goto", "pw_wait",
          "pw_content", "pw_close", "pw_parse", "orch_playwright"}
ScrapePcs == {"scrape", "backoff", "page_done"}
Success(list) == [status |-> 200, success |-> TRUE, count |-> Len(list), data |-> list]

\* C1: the strategies are invoked in the order REST API, Playwright, HTML
\* scraping, each at most once; a strategy runs only after every earlier one
\* ended empty or failed; the first non-empty strategy result is the response
\* data, unchanged, and no later strategy is invoked -- no browser is launched
\* when the REST API yields records.
C1_FixedOrderFirstNonEmpty ==
  /\ Len(calls) <= Len(StrategyOrder)
  /\ \A i \in 1..Len(calls) : calls[i] = StrategyOrder[i]
  /\ pc = "api" => calls = <<"api">>
  /\ pc \in PwPcs => calls = <<"api", "playwright">>
  /\ pc \in ScrapePcs \cup {"orch_scraping"} => calls = StrategyOrder
  /\ Len(calls) >= 2 => EmptyOrFailed(apiResult)
  /\ Len(calls) >= 3 => EmptyOrFailed(playwrightResult)
  /\ session # "none" => Len(calls) >= 2
  /\ NonEmpty(apiResult) =>
       /\ calls = <<"api">> /\ session = "none"
       /\ playwrightResult = NotRun /\ scrapedResult = NotRun
       /\ pc = "done" => response = Success(apiResult.value)
  /\ NonEmpty(playwrightResult) =>
       /\ calls = <<"api", "playwright">> /\ scrapedResult = NotRun
       /\ pc = "done" => response = Success(playwrightResult.value)
  /\ NonEmpty(scrapedResult) =>
       (pc = "done" => response = Success(scrapedResult.value))

\* the REST API yielded records and they were returned without a browser launch
C1_Witness ==
  /\ pc = "done"
  /\ NonEmpty(apiResult)
  /\ response.data = apiResult.value
  /\ session = "none"

\* C2: a strategy that throws does not keep the strategies after it from
\* being tried; when the REST API returned [] and Playwright threw, HTML
\* scraping is invoked and the response carries exactly its result.
C2_ThrowFallsThrough ==
  /\ (apiResult.kind = "throw" /\ pc # "orch_api") => Len(calls) >= 2
  /\ (playwrightResult.kind = "throw" /\ pc # "orch_playwright") => calls = StrategyOrder
  /\ (EmptyReturn(apiResult) /\ playwrightResult.kind = "throw" /\ pc = "done") =>
       /\ scrapedResult.kind = "return"
       /\ response = Success(scrapedResult.value)

\* the REST API returned [], Playwright threw, and scraped records were returned
C2_Witness ==
  /\ pc = "done"
  /\ EmptyReturn(apiResult)
  /\ playwrightResult = Throw
  /\ NonEmpty(scrapedResult)
  /\ response.data = scrapedResult.value

\* C3: when all three strategies ended empty or failed, the handler answers
\* 200 with success = true, count = 0 and an empty data list.
C3_ExhaustedIsEmptySuccess ==
  (pc = "done" /\ EmptyOrFailed(apiResult) /\ EmptyOrFailed(playwrightResult)
     /\ EmptyOrFailed(scrapedResult)) =>
    response = [status |-> 200, success |-> TRUE, count |-> 0, data |-> <<>>]

\* all three strategies were exhausted (Playwright by a throw) and the handler answered
C3_Witness ==
  /\ pc = "done"
  /\ EmptyReturn(apiResult)
  /\ playwrightResult = Throw
  /\ EmptyReturn(scrapedResult)
  /\ response.status = 200

\* C4: while every page fetched so far had zero records the scraper is at
\* page 1 or 2, and when fetchBicyclesViaScraping returns [] it has called
\* fetchBicyclesPage exactly twice (page was incremented to 3).
C4_AllEmptyStopsAfterTwo ==
  /\ (pc \in ScrapePcs /\ Len(scrapeAllBicycles) = 0) => page <= maxConsecutiveEmpty
  /\ EmptyReturn(scrapedResult) => page = maxConsecutiveEmpty + 1

\* the scraper returned [] after pages 1 and 2
C4_Witness ==
  /\ pc = "orch_scraping"
  /\ EmptyReturn(scrapedResult)
  /\ page = 3

C7_EmptyCounter ==
  /\ [](consecutiveEmptyPages \in 0..maxConsecutiveEmpty)
  /\ [][ pc = "page_done" =>
           /\ result.bicycles > 0 => consecutiveEmptyPages' = 0
           /\ (result.bicycles = 0 /\ consecutiveEmptyPages = 0
                 /\ page + 1 <= MAX_SCRAPING_PAGES) =>
                (pc' = "scrape" /\ page' = page + 1 /\ consecutiveEmptyPages' = 1)
           /\ (result.bicycles = 0 /\ pc' = "orch_scraping"
                 /\ page + 1 <= MAX_SCRAPING_PAGES) =>
                consecutiveEmptyPages = 1 ]_vars

\* three pages were fetched, one of the first two was empty, and the
\* bicycles of the page after it were collected
C7_Witness ==
  /\ pc = "scrape"
  /\ page = 4
  /\ consecutiveEmptyPages = 0
  /\ Len(scrapeAllBicycles) = 2

\* C8: fetchBicyclesPage makes at most 3 attempts for a page; a backoff is
\* slept only before attempt 2 or 3; when it returns after a failed attempt
\* that attempt was the third and the result is { bicycles: [], hasNextPage:
\* null }; the scraping strategy never ends in a throw.
C8_ThreeAttemptsThenEmpty ==
  /\ attempt \in 1..maxRetries
  /\ pc = "backoff" => attempt < maxRetries
  /\ (pc = "page_done" /\ lastOutcome \in Failures) =>
       /\ attempt = maxRetries
       /\ result = PageResult(0, "null")
  /\ scrapedResult.kind # "throw"

\* all three attempts of a page failed and the page fetcher returned
C8_Witness ==
  /\ pc = "page_done"
  /\ attempt = maxRetries
  /\ lastOutcome \in Failures
  /\ result = PageResult(0, "null")

\* C9: a request that was answered 404, 405, 401 or 403 is never sent again:
\* the request in flight differs from the last settled request whenever that
\* one ended with such a status.
C9_ShapeAuthNeverRetried ==
  (InFlight # NoReq /\ lastOutcome.kind = "status"
     /\ lastOutcome.code \in ShapeStatus \cup AuthStatus) =>
    InFlight # lastReq

\* C10: after a timeout or a 5xx the same request (same page) is sent again,
\* in the REST API strategy as in the page fetcher.
C10_TransientRetriedSamePage ==
  (InFlight # NoReq /\ lastOutcome \in { Status(c) : c \in ServerStatus } \cup {Rejected}) =>
    InFlight = lastReq

\* C11: the list fetchFromRestAPI holds and returns never mixes records of two
\* endpoint/method combinations: all its records carry the endpoint and the
\* method of its first record.
C11_NoMixingOfCombinations ==
  /\ \A i \in 1..Len(apiAllBicycles) :
       /\ apiAllBicycles[i].endpoint = apiAllBicycles[1].endpoint
       /\ apiAllBicycles[i].method = apiAllBicycles[1].method
  /\ apiResult.kind = "return" =>
       \A i \in 1..Len(apiResult.value) :
         /\ apiResult.value[i].endpoint = apiResult.value[1].endpoint
         /\ apiResult.value[i].method = apiResult.value[1].method

\* C12: after an endpoint answered 401 or 403 the next request of
\* fetchFromRestAPI goes to another endpoint.
C12_AuthAbandonsEndpoint ==
  (pc = "api" /\ lastOutcome.kind = "status" /\ lastOutcome.code \in AuthStatus) =>
    InFlight.endpoint # lastReq.endpoint

\* ------------------------------------------------ record-level properties
\* a record with an identifying signal
Identified(b) == Truthy(b.marca) \/ Truthy(b.modelo) \/ Truthy(b.descripcion)
\* t is a case-insensitive substring of the field value v; an absent field
\* contains nothing
ContainsCI(v, t) == v # Undefined /\ includes(toLowerCase(v), toLowerCase(t))
PerFieldFilters == FilterFields \ {"searchTerm"}
TermFields == {"marca", "modelo", "color", "ciudad", "provincia", "descripcion"}
\* the record passes every supplied per-field filter and, if a general term is
\* supplied, the term occurs in one of the term fields
Satisfies(b, f) ==
  /\ \A k \in PerFieldFilters : f[k] # Undefined => ContainsCI(b[k], f[k])
  /\ f.searchTerm # Undefined => \E k \in TermFields : ContainsCI(b[k], f.searchTerm)
\* out is a subsequence of list, in list's order
IsSubsequence(out, list) ==
  \E at \in [1..Len(out) -> 1..Len(list)] :
    /\ \A i \in 1..Len(out) : out[i] = list[at[i]]
    /\ \A i, j \in 1..Len(out) : i < j => at[i] < at[j]

\* C13: every record of the response, whichever strategy produced it, has a
\* non-empty brand, model or description.
C13_OnlyIdentifiedRecords ==
  pc = "done" => \A i \in 1..Len(response.data) : Identified(response.data[i])

\* C14: every record of the response satisfies every filter of the request,
\* whichever strategy produced it.
C14_EveryStrategyFiltered ==
  pc = "done" => \A i \in 1..Len(response.data) : Satisfies(response.data[i], filters)

\* C15: the local filter keeps a record exactly when it passes every supplied
\* per-field filter (case-insensitive substring, AND) and the general term, if
\* supplied, occurs in brand, model, color, city, province or description;
\* {marca: 'trek'} on brands 'Trek', 'Orbea' keeps only the first, and
\* {searchTerm: 'madrid'} keeps a record whose only match is city 'Madrid'.
C15_FilterKeepsExactlyMatching ==
  pc = "orch_playwright" =>
    /\ playwrightResult.value = SelectSeq(pwBicycles, LAMBDA b : Satisfies(b, filters))
    /\ (/\ filters = [NoFilters EXCEPT !.marca = <<"t", "r", "e", "k">>]
        /\ Len(pwBicycles) = 2
        /\ pwBicycles[1].marca = Trek
        /\ pwBicycles[2].marca = Orbea) =>
         playwrightResult.value = <<pwBicycles[1]>>
    /\ filters = [NoFilters EXCEPT !.searchTerm = <<"m", "a", "d", "r", "i", "d">>] =>
         \A i \in 1..Len(pwBicycles) :
           pwBicycles[i].ciudad = Madrid =>
             \E j \in 1..Len(playwrightResult.value) :
               playwrightResult.value[j] = pwBicycles[i]

\* {marca: 'trek'} was applied to a Trek and an Orbea and kept the Trek
C15_Witness ==
  /\ pc = "orch_playwright"
  /\ filters = [NoFilters EXCEPT !.marca = <<"t", "r", "e", "k">>]
  /\ Len(pwBicycles) = 2
  /\ pwBicycles[1].marca = Trek
  /\ pwBicycles[2].marca = Orbea
  /\ playwrightResult.value = <<pwBicycles[1]>>

\* C16: a record on which the city, province, serial number or registration
\* number is absent is not in the filtered list when a filter on that field
\* is supplied.
C16_AbsentFieldFails ==
  pc = "orch_playwright" =>
    \A k \in {"ciudad", "provincia", "numeroSerie", "numeroMatricula"} :
      filters[k] # Undefined =>
        \A i \in 1..Len(pwBicycles) :
          pwBicycles[i][k] = Undefined =>
            \A j \in 1..Len(playwrightResult.value) :
              playwrightResult.value[j] # pwBicycles[i]

\* a filter on the registration number was applied to a record without one
\* and a record with one, and only the latter was kept
C16_Witness ==
  /\ pc = "orch_playwright"
  /\ filters.numeroMatricula # Undefined
  /\ Len(pwBicycles) = 2
  /\ pwBicycles[1].numeroMatricula = Undefined
  /\ pwBicycles[2].numeroMatricula # Undefined
  /\ playwrightResult.value = <<pwBicycles[2]>>

\* C17: the filtered list is a subsequence of the records in their order, is
\* determined by the records and the filter set, and filtering it again with
\* the same filter set returns it unchanged.
C17_FilterOrderPreservingIdempotent ==
  pc = "orch_playwright" =>
    /\ IsSubsequence(playwrightResult.value, pwBicycles)
    /\ playwrightResult.value = Filtered(pwBicycles, filters)
    /\ Filtered(playwrightResult.value, filters) = playwrightResult.value

\* a general term kept two different records
C17_Witness ==
  /\ pc = "orch_playwright"
  /\ filters.searchTerm # Undefined
  /\ Len(playwrightResult.value) = 2
  /\ playwrightResult.value[1] # playwrightResult.value[2]

\* the aliases of a canonical field, in the order the claim gives
Aliases ==
  [marca |-> <<"marca", "brand">>,
   modelo |-> <<"modelo", "model">>,
   ciudad |-> <<"ciudad", "city">>,
   provincia |-> <<"provincia", "province">>,
   descripcion |-> <<"descripcion", "description">>,
   numeroSerie |-> <<"numeroSerie", "serialNumber", "numSerie">>]
\* the positions of the aliases that have a non-empty value on the item
NonEmptyAliases(item, names) == { k \in 1..Len(names) : Truthy(item[names[k]]) }
\* the value of the first of them
FirstNonEmpty(item, names) ==
  LET set == NonEmptyAliases(item, names)
  IN item[names[CHOOSE k \in set : \A l \in set : k <= l]]

\* C18: parseAPIResponse yields one record per item, and each canonical field
\* (brand, model, city, province, description, serial number) is the value of
\* the first alias, in the fixed order, that is non-empty on the item: brand
\* alone gives the brand, and marca wins when both are set.
C18_FirstNonEmptyAlias ==
  pc = "orch_api" =>
    /\ Len(apiAllBicycles) = Len(rawItems)
    /\ \A i \in 1..Len(rawItems) :
         /\ \A field \in DOMAIN Aliases :
              NonEmptyAliases(rawItems[i], Aliases[field]) # {} =>
                apiAllBicycles[i][field] = FirstNonEmpty(rawItems[i], Aliases[field])
         /\ (~Truthy(rawItems[i].marca) /\ Truthy(rawItems[i].brand)) =>
              apiAllBicycles[i].marca = rawItems[i].brand
         /\ (Truthy(rawItems[i].marca) /\ Truthy(rawItems[i].brand)) =>
              apiAllBicycles[i].marca = rawItems[i].marca

\* an item with brand set and marca empty was parsed
C18_Witness ==
  /\ pc = "orch_api"
  /\ \E i \in 1..Len(rawItems) :
       /\ rawItems[i].marca = Empty
       /\ rawItems[i].brand = Trek
       /\ apiAllBicycles[i].marca = Trek

\* C19: the image URL of every returned record is absolute unless it is the
\* placeholder of a record without image, and the rewritten URLs of one
\* response are on one upstream origin.
C19_ImagesAbsoluteOnOneOrigin ==
  pc = "done" =>
    /\ \A i \in 1..Len(response.data) :
         \/ response.data[i].imagen = Placeholder
         \/ startsWith(response.data[i].imagen, <<"http">>)
    /\ \A i, j \in 1..Len(response.data) :
         ~ (/\ startsWith(response.data[i].imagen, WwwOrigin)
            /\ startsWith(response.data[j].imagen, BareOrigin))

\* an item that carries no image under any key
NoImage(item) ==
  \A k \in {"imagen", "image", "foto", "imagenCompleta"} : ~Truthy(item[k])

\* C20: no returned record has an undefined or empty image, and the record of
\* an item without image has the placeholder '/images/bicicletas/placeholder.svg'
\* as image and as full-resolution image.
C20_PlaceholderWhenNoImage ==
  /\ pc = "done" =>
       \A i \in 1..Len(response.data) :
         Truthy(response.data[i].imagen) /\ Truthy(response.data[i].imagenCompleta)
  /\ pc = "orch_api" =>
       \A i \in 1..Len(rawItems) :
         NoImage(rawItems[i]) =>
           /\ apiAllBicycles[i].imagen = Placeholder
           /\ apiAllBicycles[i].imagenCompleta = Placeholder

\* --------------------------------------------------------------- identifiers
\* `item.id || item.idBicicleta`, route.ts:440: the identifier the upstream
\* gives the record.  The listing is the same whichever endpoint or method
\* serves it, so a record is known by its position (records of one page stand
\* as one element)
ItemId(b) == b.page + 1

\* crypto.randomUUID(), route.ts:435-437: a fresh value at every call; one
\* request is parsed by one call
randomUUID(b) == <<"uuid", b.endpoint, b.method, b.page>>

\* the id of the Bicycle, route.ts:440; carried: the upstream items have an
\* identifier of their own
BicycleId(b, carried) == IF carried THEN ItemId(b) ELSE randomUUID(b)

\* C21: the identifiers of the records of one returned result set are pairwise
\* distinct, taken from the upstream item or generated, whatever pages,
\* endpoints and methods contributed the records.
C21_IdsPairwiseDistinct ==
  (pc = "done" /\ response.status = 200) =>
    \A carried \in BOOLEAN :
      \A i, j \in 1..Len(response.data) :
        (/\ i # j
         /\ response.data[i].src = "api"
         /\ response.data[j].src = "api")
          => BicycleId(response.data[i], carried) # BicycleId(response.data[j], carried)

\* C22: fetchBicyclesWithPlaywright releases the browser session on every
\* exit path: when the launch succeeded, browser.close() has been called by
\* the time the function returns (records found or none) or throws.
C22_SessionReleasedOnEveryExit ==
  (pc = "orch_playwright" /\ session # "none") =>
    /\ closeCalls >= 1
    /\ session = "closed"

\* a step after the launch failed and the function threw with the browser closed
C22_Witness ==
  /\ pc = "orch_playwright"
  /\ playwrightResult = Throw
  /\ browser = "open"
  /\ session = "closed"
  /\ closeCalls = 1

\* C23: no exception of an inner fetch, browser operation or parse escapes a
\* strategy: none of fetchFromRestAPI, fetchBicyclesWithPlaywright and
\* fetchBicyclesViaScraping ever throws to fetchBicyclesFromBiciregistro.
C23_NoThrowToOrchestrator ==
  /\ apiResult.kind # "throw"
  /\ playwrightResult.kind # "throw"
  /\ scrapedResult.kind # "throw"

\* C26: the HTML scraper stops paginating when no "next page" link is found
\* in the HTML of the page just fetched (hasNextPage is true exactly when
\* one of the next-link selectors matched).
C26_StopsWithoutNextLink ==
  [][ (/\ pc = "page_done"
       /\ lastOutcome = Ok
       /\ result.hasNextPage # DetectPagination(TRUE, FALSE))
        => (pc' = "orch_scraping" /\ ~hasMorePages') ]_vars

\* C27: with 3 attempts per page the waits between retries are 1 s, 2 s and
\* 4 s: the k-th failed attempt of a page is followed by a wait of
\* min(1000 * 2^(k-1), 5000) ms, for k = 1, 2, 3.
C27_BackoffOneTwoFour ==
  [][ (pc = "scrape" /\ lastOutcome' \in Failures) =>
        /\ pc' = "backoff"
        /\ waitTime' = <<1000, 2000, 4000>>[attempt] ]_vars

\* the body says that this page is the last one
ExplicitLast(data) ==
  \/ data.last = "true"
  \/ data.hasNext = "false"
  \/ data.hasMore = "false"
  \/ data.totalPages # 0 /\ data.number >= data.totalPages - 1

\* C28: in both paginated strategies a non-empty page without an explicit
\* "last page" signal is followed by the fetch of the next page, up to the
\* page ceiling; a REST API body without pagination metadata (a bare array)
\* does not end the run.
C28_NoSignalContinues ==
  [][ /\ (/\ pc = "page_done"
          /\ result.bicycles > 0
          /\ result.hasNextPage # "false"
          /\ page + 1 <= MAX_SCRAPING_PAGES)
           => (pc' = "scrape" /\ page' = page + 1)
      /\ (/\ pc = "api"
          /\ lastOutcome'.kind = "status"
          /\ lastOutcome'.code = 200
          /\ lastOutcome'.data.items
          /\ ~ExplicitLast(lastOutcome'.data)
          /\ apiPage + 1 < MAX_API_PAGES)
           => (/\ pc' = "api"
               /\ endpoint' = endpoint
               /\ method' = method
               /\ apiPage' = apiPage + 1) ]_vars

\* C29: within one strategy run the pages are fetched one after the other: a
\* request is sent only when the result of the one before is known, and the
\* page indices rise without gaps: 1, 2, 3, ... in the HTML strategy (a retry
\* asks for the same page again), 0, 1, 2, ... for each endpoint and method
\* of the REST API, the combinations being taken in their order.
C29_PagesSequentialInOrder ==
  [][ /\ pc' = "scrape" =>
           \/ pc = "orch_playwright" /\ page' = 1 /\ attempt' = 1
           \/ /\ pc = "backoff"
              /\ lastReq = PageRequest
              /\ lastOutcome \in Failures
              /\ page' = page
           \/ /\ pc = "page_done"
              /\ lastReq = PageRequest
              /\ result # NoResult
              /\ page' = page + 1
      /\ pc' = "api" =>
           \/ pc = "idle" /\ endpoint' = 1 /\ method' = 1 /\ apiPage' = 0
           \/ /\ pc = "api"
              /\ lastReq' = ApiRequest
              /\ lastOutcome' # NoOutcome
              /\ \/ endpoint' = endpoint /\ method' = method /\ apiPage' = apiPage + 1
                 \/ endpoint' = endpoint /\ method' = method + 1 /\ apiPage' = 0
                 \/ /\ endpoint' = endpoint + 1
                    /\ method = Len(methods)
                    /\ method' = 1
                    /\ apiPage' = 0 ]_vars

\* the third page of an endpoint and method is being requested after two
\* pages with records
C29_Witness ==
  /\ pc = "api"
  /\ apiPage = 2
  /\ lastReq = [ApiRequest EXCEPT !.page = 1]
  /\ Len(apiAllBicycles) = 2

\* the text is whitespace only
IsBlank(raw) == \A k \in 1..Len(raw) : raw[k] \in Whitespace

\* t is raw without its leading and trailing whitespace
IsTrimOf(t, raw) ==
  /\ t # Empty => (t[1] \notin Whitespace /\ t[Len(t)] \notin Whitespace)
  /\ \E i, j \in 0..Len(raw) :
       /\ i + Len(t) + j = Len(raw)
       /\ SubSeq(raw, i + 1, i + Len(t)) = t
       /\ IsBlank(SubSeq(raw, 1, i))
       /\ IsBlank(SubSeq(raw, Len(raw) - j + 1, Len(raw)))

\* the positions in the list of the selectors whose first match has text
Hits ==
  { k \in 1..Len(selectorList) :
      /\ element[selectorList[k]] # <<>>
      /\ ~IsBlank(element[selectorList[k]][1]) }

\* C30: extractText returns the trimmed text of the first match of the first
\* selector, in list order, whose first match has non-blank text; it returns
\* the empty string when no selector matches or every first match is blank,
\* and it never throws.
C30_FirstNonBlankInListOrder ==
  extractResult # NotRun =>
    /\ extractResult.kind = "return"
    /\ IF Hits = {}
         THEN extractResult.value = Empty
         ELSE LET first == CHOOSE k \in Hits : \A h \in Hits : k <= h
              IN IsTrimOf(extractResult.value, element[selectorList[first]][1])

\* the first selector of the list matches a blank element and then one with
\* text, the second selector matches nothing, the third gives the result
C30_Witness ==
  /\ extractResult = Return(Rojo)
  /\ selectorList = ColorSelectors
  /\ element[ColorSelectors[1]] = <<Blank, Azul>>
  /\ element[ColorSelectors[2]] = <<>>
  /\ element[ColorSelectors[3]] = <<PaddedRojo, Azul>>

\* the host a fetch of the URL goes to: what stands between the scheme and
\* the first "/"
hostname(url) ==
  LET rest == Tail(url)
      stops == { k \in 1..Len(rest) : rest[k] = "/" }
      end == IF stops = {} THEN Len(rest)
             ELSE (CHOOSE k \in stops : \A h \in stops : k <= h) - 1
  IN SubSeq(rest, 1, end)

\* the host is the upstream's
IsUpstreamHost(host) ==
  host = <<"biciregistro.es">> \/ host = <<"www.", "biciregistro.es">>

\* C24: the image relay answers 400 to every URL whose host is not the
\* upstream's and makes no outbound request for it: it fetches only URLs
\* whose host is biciregistro.es.
C24_RelayOnlyUpstreamHost ==
  /\ \A i \in 1..Len(outbound) : IsUpstreamHost(hostname(outbound[i]))
  /\ (/\ relayPc = "done"
      /\ imageUrl # Null
      /\ imageUrl # Empty
      /\ ~IsUpstreamHost(hostname(imageUrl)))
       => relayResponse.status = 400

\* C25: when the caller's request is aborted while an acquisition is running,
\* the in-flight fetch is cancelled and an open browser session is closed:
\* after the step that follows the cancellation no request is in flight and
\* no browser session is open.
C25_CancellationTearsDown ==
  [][ aborted => (session' # "open" /\ InFlight' = NoReq) ]_vars

\* the positions in the priority order of the keys that hold an array
ArrayKeys == { k \in 1..Len(ShapeKeys) : body[ShapeKeys[k]].type = "array" }

\* C31: parseAPIResponse takes the items of a bare array, else of the first
\* of content, data, bicicletas, results that holds an array; a body of no
\* known shape, null included, yields no record and no exception.
C31_ShapePriority ==
  parseResult # NotRun =>
    /\ parseResult.kind = "return"
    /\ Len(parseResult.value) =
         (IF body.kind \in {"null", "primitive"} THEN 0
          ELSE IF body.kind = "array" THEN Len(body.items)
          ELSE IF ArrayKeys = {} THEN 0
          ELSE Len(body[ShapeKeys[CHOOSE k \in ArrayKeys : \A h \in ArrayKeys : k <= h]].items))
    /\ \A i \in 1..Len(parseResult.value) :
         parseResult.value[i].marca =
           (IF body.kind = "array" THEN body.items[i].marca
            ELSE body[ShapeKeys[CHOOSE k \in ArrayKeys : \A h \in ArrayKeys : k <= h]].items[i].marca)

\* a body with a content array and a results array gave the content item only
C31_Witness ==
  /\ body.kind = "object"
  /\ body.content = ArrayValue(<<[NoItem EXCEPT !.marca = Trek]>>)
  /\ body.results = ArrayValue(<<[NoItem EXCEPT !.marca = Orbea]>>)
  /\ parseResult.kind = "return"
  /\ Len(parseResult.value) = 1
  /\ parseResult.value[1].marca = Trek

\* C32: when the content marker does not appear within the wait timeout the
\* Rendered-DOM strategy does not fail: it goes on to capture the rendered
\* document with the session open, extraction runs on it, and the session
\* has been released when the strategy returns.
C32_ProceedsWithoutMarker ==
  /\ [][ pc = "pw_wait" =>
           /\ pc' = "pw_content"
           /\ playwrightResult' = NotRun
           /\ session' = "open" ]_vars
  /\ []((pc = "orch_playwright" /\ ~markerSeen /\ playwrightResult.kind = "return")
          => (closeCalls = 1 /\ session = "closed"))

\* the marker never appeared and the strategy returned records of the document
C32_Witness ==
  /\ pc = "orch_playwright"
  /\ ~markerSeen
  /\ NonEmpty(playwrightResult)
  /\ session = "closed"

\* C33: with an HTML listing whose every request fails, a page whose three
\* attempts failed counts as an empty page: the requests are attempts 1, 2, 3
\* for page 1, then attempts 1, 2, 3 for page 2, six in all, after which
\* fetchBicyclesViaScraping returns the empty list and does not throw.
C33_FailingUpstreamSixAttempts ==
  /\ [](pc \in ScrapePcs => page \in 1..2)
  /\ [](scrapedResult.kind # "throw")
  /\ [][ pc = "scrape" =>
           /\ lastReq' = PageRequest
           /\ lastOutcome' \in Failures
           /\ page' = page
           /\ IF attempt < 3
                THEN pc' = "backoff"
                ELSE pc' = "page_done" /\ result' = PageResult(0, "null") ]_vars
  /\ [][ pc = "backoff" => (pc' = "scrape" /\ attempt' = attempt + 1 /\ page' = page) ]_vars
  /\ [][ pc = "page_done" =>
           /\ attempt = 3
           /\ consecutiveEmptyPages' = page
           /\ IF page = 1
                THEN pc' = "scrape" /\ page' = 2 /\ attempt' = 1
                ELSE pc' = "orch_scraping" /\ scrapedResult' = Return(<<>>) ]_vars

\* the third attempt for page 2 has failed after the three for page 1
C33_Witness ==
  /\ pc = "page_done"
  /\ page = 2
  /\ attempt = 3
  /\ lastOutcome \in Failures
  /\ consecutiveEmptyPages = 1
  /\ result = PageResult(0, "null")

\* page fetches fetchBicyclesViaScraping can still make, the current one included
PagesLeft ==
  IF pc \in ScrapePcs THEN MAX_SCRAPING_PAGES - page + (IF pc = "page_done" THEN 0 ELSE 1) ELSE 0

\* HTTP attempts fetchBicyclesViaScraping can still make
AttemptsLeft ==
  IF pc = "scrape" THEN maxRetries * (MAX_SCRAPING_PAGES - page) + (maxRetries - attempt + 1)
  ELSE IF pc = "backoff" THEN maxRetries * (MAX_SCRAPING_PAGES - page) + (maxRetries - attempt)
  ELSE IF pc = "page_done" THEN maxRetries * (MAX_SCRAPING_PAGES - page)
  ELSE 0

\* C34: whatever the pages' outcomes, fetchBicyclesViaScraping ends within
\* 100 page fetches and 300 HTTP attempts, and the page index given to the
\* fetcher is in 1..100: it starts with 100 fetches and 300 attempts left,
\* neither budget goes below zero or grows, every HTTP attempt uses up at
\* least one attempt, every finished page one fetch, and every wait is
\* followed by an attempt with fewer attempts left after it.
C34_ScrapingBounded ==
  /\ [](pc \in ScrapePcs => (page \in 1..MAX_SCRAPING_PAGES /\ attempt \in 1..maxRetries))
  /\ [](PagesLeft \in 0..MAX_SCRAPING_PAGES /\ AttemptsLeft \in 0..(maxRetries * MAX_SCRAPING_PAGES))
  /\ [][ (pc \notin ScrapePcs /\ pc' \in ScrapePcs) =>
           (pc' = "scrape" /\ page' = 1 /\ PagesLeft' = 100 /\ AttemptsLeft' = 300) ]_vars
  /\ [][ (pc \in ScrapePcs) => (PagesLeft' <= PagesLeft /\ AttemptsLeft' <= AttemptsLeft) ]_vars
  /\ [][ pc = "scrape" => AttemptsLeft' < AttemptsLeft ]_vars
  /\ [][ pc = "backoff" => (pc' = "scrape" /\ AttemptsLeft' = AttemptsLeft) ]_vars
  /\ [][ pc = "page_done" => (pc' \in {"scrape", "orch_scraping"} /\ PagesLeft' < PagesLeft + 1
                               /\ (pc' = "scrape" => PagesLeft' = PagesLeft)) ]_vars
  /\ [][ (pc \in {"scrape", "backoff"} /\ pc' = "page_done") => PagesLeft' < PagesLeft ]_vars

\* the third attempt for page 100 is about to be sent: the last of the budget
C34_Witness ==
  /\ pc = "scrape"
  /\ page = MAX_SCRAPING_PAGES
  /\ attempt = maxRetries
  /\ PagesLeft = 1
  /\ AttemptsLeft = 1

\* endpoint/method combinations after the current one in the loops' order
CombinationsLeft == Len(methods) * (Len(endpoints) - endpoint) + (Len(methods) - method)

\* requests fetchFromRestAPI can still send, the pending one included
ApiRequestsLeft ==
  IF pc = "api" THEN MAX_API_PAGES * CombinationsLeft + (MAX_API_PAGES - apiPage) ELSE 0

\* C35: whatever the upstream answers, fetchFromRestAPI sends at most 10
\* page requests per endpoint/method combination and at most 60 in all: it
\* starts at page 0 of the first combination with 60 requests left, a pending
\* request has a page in 0..9, every request uses up at least one of the
\* budget, and the next request is either the next page of the same
\* combination or page 0 of a later combination; a page that claims more data
\* at page 9 is followed by no page 10.
C35_ApiRequestsBounded ==
  /\ [](pc = "api" =>
          /\ apiPage \in 0..(MAX_API_PAGES - 1)
          /\ endpoint \in 1..Len(endpoints)
          /\ method \in 1..Len(methods))
  /\ [](ApiRequestsLeft \in 0..60)
  /\ [][ (pc # "api" /\ pc' = "api") =>
           (endpoint' = 1 /\ method' = 1 /\ apiPage' = 0 /\ ApiRequestsLeft' = 60) ]_vars
  /\ [][ pc = "api" => ApiRequestsLeft' < ApiRequestsLeft ]_vars
  /\ [][ (pc = "api" /\ pc' = "api") =>
           \/ endpoint' = endpoint /\ method' = method /\ apiPage' = apiPage + 1
           \/ CombinationsLeft' = CombinationsLeft - 1 /\ apiPage' = 0 ]_vars
  /\ [][ (pc = "api" /\ apiPage = MAX_API_PAGES - 1) =>
           (pc' = "orch_api" \/ (pc' = "api" /\ apiPage' = 0)) ]_vars

\* page 9 of the last combination answered with a record and a claim of more
\* pages, and fetchFromRestAPI returned
C35_Witness ==
  /\ pc = "orch_api"
  /\ endpoint = Len(endpoints)
  /\ method = Len(methods)
  /\ apiPage = MAX_API_PAGES - 1
  /\ lastOutcome.kind = "status"
  /\ lastOutcome.code = 200
  /\ lastOutcome.data.items
  /\ checkHasMorePages(lastOutcome.data)

\* the records of list are those of pages 0..k of one endpoint and method, in
\* page order: none of its pages is missing
ContiguousPrefix(list) ==
  \A i \in 1..Len(list) :
    /\ list[i].page = i - 1
    /\ list[i].endpoint = list[1].endpoint
    /\ list[i].method = list[1].method

\* C36: the list fetchFromRestAPI holds and returns is made of the records of
\* pages 0..k of the adopted endpoint and method with no page skipped: the
\* records of page p + 1 are not in it when page p gave no records.
C36_NoPageSkipped ==
  /\ ContiguousPrefix(apiAllBicycles)
  /\ apiResult.kind = "return" => ContiguousPrefix(apiResult.value)

\* C37: in fetchBicyclesPage the first attempt that succeeds ends the retry
\* loop: its parsed result, with or without records, is returned at once
\* with no wait and no further attempt for that page; a wait begins only
\* after a failed attempt that is not the last, is followed by the next
\* attempt for the same page, and none follows the third failed attempt.
C37_FirstSuccessEndsRetries ==
  /\ [](waitTime # 0 => pc = "backoff")
  /\ [][ (pc = "scrape" /\ lastOutcome' = Ok) =>
           /\ pc' = "page_done"
           /\ result' \in PageResults
           /\ attempt' = attempt
           /\ waitTime' = 0 ]_vars
  /\ [][ (pc = "page_done" /\ pc' \in ScrapePcs) =>
           (pc' = "scrape" /\ page' = page + 1 /\ attempt' = 1) ]_vars
  /\ [][ pc' = "backoff" =>
           /\ pc = "scrape"
           /\ lastOutcome' \in Failures
           /\ attempt < maxRetries
           /\ waitTime' > 0 ]_vars
  /\ [][ pc = "backoff" =>
           (pc' = "scrape" /\ attempt' = attempt + 1 /\ page' = page /\ waitTime' = 0) ]_vars
  /\ [][ (pc = "scrape" /\ lastOutcome' \in Failures /\ attempt = maxRetries) =>
           (pc' = "page_done" /\ waitTime' = 0) ]_vars

\* the second attempt succeeded with a page without records and was returned
C37_Witness ==
  /\ pc = "page_done"
  /\ lastOutcome = Ok
  /\ attempt = 2
  /\ result.bicycles = 0
  /\ waitTime = 0

\* C38: the continuation signal of parseBicycleData is tri-state and a
\* next-page indicator takes precedence: it is true when some next-page
\* selector finds an element, false only when none does and some
\* disabled-next selector finds one, null otherwise; it is the same whatever
\* the number of records extracted.
C38_NextIndicatorPrecedence ==
  pageParse.kind = "return" =>
    LET someNext == \E k \in 1..Len(paginationSelectors) : Found(paginationSelectors[k], html)
        someDisabled == \E k \in 1..Len(lastPageSelectors) : Found(lastPageSelectors[k], html)
        signal == pageParse.value.hasNextPage
    IN /\ signal \in {"true", "false", "null"}
       /\ signal = "true" <=> someNext
       /\ signal = "false" <=> (~someNext /\ someDisabled)
       /\ signal = "null" <=> (~someNext /\ ~someDisabled)
       /\ \A n \in 0..MaxPageRecords :
            parseBicycleData([html EXCEPT !.records = n]).hasNextPage = signal

\* a document without records whose control matches a next-page selector and a
\* disabled-next selector was parsed: the signal is true
C38_Witness ==
  /\ pageParse.kind = "return"
  /\ pageParse.value = PageResult(0, "true")
  /\ \E c \in html.controls :
       /\ SelectorFinds("a[rel=\"next\"]", c)
       /\ SelectorFinds("a.next.disabled", c)

\* C39: in fetchBicyclesWithPlaywright browser.close() is called exactly once
\* for a launched browser and never a second time, on any path: while the call
\* runs and when it ends, close() has been called at most once, and the
\* session is closed exactly when it has been called once.
C39_ClosedExactlyOnce ==
  pc \in PwPcs =>
    /\ closeCalls \in {0, 1}
    /\ session = "closed" <=> closeCalls = 1

============================================================================
